---- MODULE Spec2Model ----
(***************************************************************************)
(* A model of doc_analyzer: the heading classifier and the hierarchy       *)
(* builder of segment/section_parser.py, the chunker of chunk/chunker.py   *)
(* and the relationship queries of query/sections_query.py.                *)
(*                                                                         *)
(* Text is modelled as a sequence of one-character strings, so that        *)
(* strip, upper-casing, accent stripping, whitespace collapsing, substring *)
(* search and the character counts are computed as the code computes them. *)
(* Python's None is the value None below; an optional number is a sequence *)
(* of length 0 (None) or 1.                                                *)
(***************************************************************************)
EXTENDS Naturals, Integers, Sequences, FiniteSets, TLC

(***************************************************************************)
(* Bounds of the model.                                                    *)
(***************************************************************************)
MaxPages == 2
MaxSections == 3
MaxSeqLen == 3
MaxDigits == 9
MaxLetters == 4
LongPad == 118
MaxLines == 4

(***************************************************************************)
(* State.  The variables carry the names of the code's locals.  sections,  *)
(* pc and page_index are used by the hierarchy builder (which builds       *)
(* sections) and by the chunker (which is handed sections); page_index is  *)
(* the position of the page being processed in pages, which is also the    *)
(* page_number the loader gives it.                                        *)
(***************************************************************************)
VARIABLES
    sections, pc, page_index,
    (* segment_sections_with_keywords *)
    keyword_set, subsection_keyword_set, keyword_patterns,
    subsection_regex_patterns, median_size, current_parent_id,
    current_subsection_id, section_id, segment_result,
    (* chunk_sections *)
    page_number, lines, line_index, lines_read, section_cursor, buffer,
    current_kind, current_section_id, chunk_id, chunks, chunk_result,
    (* one call of a classifier or of a query function *)
    call, ret,
    (* get_parent_chain, _collect_descendants, build_section_context_by_id *)
    chain, current, stack, descendants, context,
    (* _build_section_path; build_section_context *)
    path, matches, contexts,
    (* the keywords file; pipeline.run *)
    kw_file, kw_log, outputs, raised, steps

sharedVars == <<sections, pc, page_index>>
segOnlyVars ==
    <<keyword_set, subsection_keyword_set, keyword_patterns,
      subsection_regex_patterns, median_size, current_parent_id,
      current_subsection_id, section_id, segment_result>>
segVars == <<sharedVars, segOnlyVars>>
chunkOnlyVars ==
    <<page_number, lines, line_index, lines_read, section_cursor, buffer,
      current_kind, current_section_id, chunk_id, chunks, chunk_result>>
chunkVars == <<sharedVars, chunkOnlyVars>>
clsVars == <<call, ret>>
queryOnlyVars == <<chain, current, stack, descendants, context>>
pipeVars == <<kw_file, kw_log, outputs, raised, steps>>
extraVars == <<path, matches, contexts, pipeVars>>
vars ==
    <<sharedVars, segOnlyVars, chunkOnlyVars, clsVars, queryOnlyVars,
      extraVars>>

(***************************************************************************)
(* Characters.                                                             *)
(***************************************************************************)
None == <<"None">>

Digits == {"0", "1", "2", "3", "4", "5", "6", "7", "8", "9"}
DigitChars == <<"0", "1", "2", "3", "4", "5", "6", "7", "8", "9">>
LowerLetters ==
    <<"a", "b", "c", "d", "e", "f", "g", "h", "i", "j", "k", "l", "m",
      "n", "o", "p", "q", "r", "s", "t", "u", "v", "w", "x", "y", "z">>
UpperLetters ==
    <<"A", "B", "C", "D", "E", "F", "G", "H", "I", "J", "K", "L", "M",
      "N", "O", "P", "Q", "R", "S", "T", "U", "V", "W", "X", "Y", "Z">>
Whitespace == {" ", "\t"}

Range(s) == {s[i] : i \in 1..Len(s)}
IndexOf(s, c) == CHOOSE i \in 1..Len(s) : s[i] = c
SetMin(S) == CHOOSE x \in S : \A y \in S : x <= y
SetMax(S) == CHOOSE x \in S : \A y \in S : x >= y
Max2(a, b) == IF a >= b THEN a ELSE b
Indices(s) == [i \in 1..Len(s) |-> i]
Rep(c, n) == [i \in 1..n |-> c]

LowerSet == Range(LowerLetters) \cup {"é"}
UpperSet == Range(UpperLetters) \cup {"É"}

(* str.isdigit / islower / isupper / isalpha / isspace of one character;   *)
(* the accented letters stand for the letters NFKD decomposes.             *)
IsDigit(c) == c \in Digits
IsLowerChar(c) == c \in LowerSet
IsUpperChar(c) == c \in UpperSet
IsAlpha(c) == IsLowerChar(c) \/ IsUpperChar(c)
IsSpace(c) == c \in Whitespace

(* unicodedata.normalize("NFKD", ch) with the combining marks dropped.     *)
StripAccentChar(c) ==
    IF c = "é" THEN "e" ELSE IF c = "É" THEN "E" ELSE c

(* str.upper of the cased characters.                                      *)
UpperMap ==
    [c \in LowerSet |->
        IF c = "é" THEN "É" ELSE UpperLetters[IndexOf(LowerLetters, c)]]

(* str.lower of the cased characters.                                      *)
LowerMap ==
    [c \in UpperSet |->
        IF c = "É" THEN "é" ELSE LowerLetters[IndexOf(UpperLetters, c)]]

UpperChar(c) == IF c \in LowerSet THEN UpperMap[c] ELSE c
LowerChar(c) == IF c \in UpperSet THEN LowerMap[c] ELSE c

(***************************************************************************)
(* Strings.                                                                *)
(***************************************************************************)
StripAccents(s) == [i \in 1..Len(s) |-> StripAccentChar(s[i])]
Upper(s) == [i \in 1..Len(s) |-> UpperChar(s[i])]
Lower(s) == [i \in 1..Len(s) |-> LowerChar(s[i])]

(* str.strip()                                                             *)
Strip(s) ==
    LET solid == {i \in 1..Len(s) : ~IsSpace(s[i])}
    IN  IF solid = {} THEN <<>> ELSE SubSeq(s, SetMin(solid), SetMax(solid))

(* re.sub(r"\s+", " ", s): every maximal run of whitespace becomes one     *)
(* space.                                                                  *)
CollapseWhitespace(s) ==
    LET Keep(i) == ~IsSpace(s[i]) \/ i = 1 \/ ~IsSpace(s[i - 1])
        kept == SelectSeq(Indices(s), Keep)
    IN  [k \in 1..Len(kept) |->
            IF IsSpace(s[kept[k]]) THEN " " ELSE s[kept[k]]]

(* needle in hay                                                           *)
Contains(hay, needle) ==
    \E i \in 0..(Len(hay) - Len(needle)) :
        SubSeq(hay, i + 1, i + Len(needle)) = needle

(* str.split(): the maximal runs of non-whitespace, in order.              *)
Split(s) ==
    LET IsStart(i) == ~IsSpace(s[i]) /\ (i = 1 \/ IsSpace(s[i - 1]))
        starts == SelectSeq(Indices(s), IsStart)
        EndOf(i) ==
            SetMax({j \in i..Len(s) : \A k \in i..j : ~IsSpace(s[k])})
    IN  [k \in 1..Len(starts) |-> SubSeq(s, starts[k], EndOf(starts[k]))]

(* sep.join(parts)                                                         *)
RECURSIVE Join(_, _)
Join(parts, sep) ==
    IF parts = <<>> THEN <<>>
    ELSE IF Len(parts) = 1 THEN parts[1]
    ELSE parts[1] \o sep \o Join(Tail(parts), sep)

(* str.isupper(): at least one cased character and no lower-case one.      *)
IsUpperStr(s) ==
    /\ \E i \in 1..Len(s) : IsUpperChar(s[i])
    /\ \A i \in 1..Len(s) : ~IsLowerChar(s[i])

CountDigits(s) == Cardinality({i \in 1..Len(s) : IsDigit(s[i])})
CountLetters(s) == Cardinality({i \in 1..Len(s) : IsAlpha(s[i])})
CountChar(s, c) == Cardinality({i \in 1..Len(s) : s[i] = c})

(* re.fullmatch(r"[0-9%.,\s]+", s)                                         *)
FullMatchNumeric(s) ==
    /\ Len(s) >= 1
    /\ \A i \in 1..Len(s) :
          IsDigit(s[i]) \/ s[i] \in {"%", ".", ","} \/ IsSpace(s[i])

(* The decimal digits of n, most significant first.                        *)
RECURSIVE DecDigits(_)
DecDigits(n) ==
    IF n < 10 THEN <<DigitChars[n + 1]>>
    ELSE DecDigits(n \div 10) \o <<DigitChars[(n % 10) + 1]>>

(* f"{n:03d}": zero-padded to at least three digits.                       *)
Format03d(n) ==
    LET d == DecDigits(n)
    IN  IF Len(d) >= 3 THEN d ELSE Rep("0", 3 - Len(d)) \o d

(* The decimal number a digit string denotes.                              *)
RECURSIVE ParseInt(_)
ParseInt(d) ==
    IF d = <<>> THEN 0
    ELSE 10 * ParseInt(SubSeq(d, 1, Len(d) - 1))
             + (IndexOf(DigitChars, d[Len(d)]) - 1)

(* Python truthiness of an optional string.                                *)
Truthy(x) == x # None /\ x # <<>>


(***************************************************************************)
(* segment/section_parser.py: the heading classifier.                      *)
(***************************************************************************)
MinHeadingLen == 3
UpperMaxLen == 120
HeadingSizeDelta == 2

_normalize(text) == Strip(Upper(StripAccents(text)))

(* any(pattern.search(text) for pattern in patterns), the patterns being   *)
(* literal texts compiled with re.IGNORECASE.                              *)
_matches_patterns(text, patterns) ==
    \E i \in 1..Len(patterns) : Contains(Upper(text), Upper(patterns[i]))

(* Mutant of _is_heading_candidate: the font-size rule asks for strictly   *)
(* more than the threshold.                                                *)
_is_heading_candidate_StrictlyLarger(text, median, size, keywords, patterns) ==
    IF text = <<>> THEN FALSE
    ELSE LET clean == Strip(text)
         IN  IF Len(clean) < MinHeadingLen THEN FALSE
             ELSE IF _normalize(clean) \in keywords THEN TRUE
             ELSE IF _matches_patterns(clean, patterns) THEN TRUE
             ELSE IF IsUpperStr(clean) /\ Len(clean) <= UpperMaxLen THEN TRUE
             ELSE IF size # <<>> /\ size[1] > median + HeadingSizeDelta
                  THEN TRUE
             ELSE FALSE

_is_heading_candidate(text, median, size, keywords, patterns) ==
    IF text = <<>> THEN FALSE
    ELSE LET clean == Strip(text)
         IN  IF Len(clean) < MinHeadingLen THEN FALSE
             ELSE IF _normalize(clean) \in keywords THEN TRUE
             ELSE IF _matches_patterns(clean, patterns) THEN TRUE
             ELSE IF IsUpperStr(clean) /\ Len(clean) <= UpperMaxLen THEN TRUE
             ELSE IF size # <<>> /\ size[1] >= median + HeadingSizeDelta
                  THEN TRUE
             ELSE FALSE

(* Mutant of _is_numeric_like: the thresholds of the chunker's predicate.  *)
_is_numeric_like_AsChunker(text) ==
    IF FullMatchNumeric(text) THEN TRUE
    ELSE /\ CountDigits(text) >= 2
         /\ CountLetters(text) <= Max2(2, CountDigits(text) \div 3)

_is_numeric_like(text) ==
    IF FullMatchNumeric(text) THEN TRUE
    ELSE CountDigits(text) >= 1 /\ CountLetters(text) <= 2

(***************************************************************************)
(* segment/section_parser.py: segment_sections_with_keywords.              *)
(***************************************************************************)
(* The keyword arguments a run is called with: none at all                 *)
(* (segment_sections), or keywords and patterns of a keywords file.        *)
KwConfigs ==
    { [main_keywords |-> <<>>, subsection_keywords |-> <<>>,
       main_regex |-> <<>>, subsection_regex |-> <<>>],
      [main_keywords |-> <<>>,
       subsection_keywords |-> <<<<"q", "1", " ", "r", "é", "s", "u", "l", "t", "s">>>>,
       main_regex |-> <<>>,
       subsection_regex |-> <<<<"a", "n", "n", "e", "x">>>>] }

(* The texts of the lines of a page, as the page supplies them.            *)
SegTexts ==
    { <<"C", "A", "M", "P", "A", "I", "G", "N", "S">>,
      <<"Q", "1", " ", " ", "R", "e", "s", "u", "l", "t", "s">>,
      <<"1", "2", "3", " ", "4", "5", " ", "6", "7">>,
      <<"1", " ", "A">>,
      <<"A", "n", "n", "e", "x", " ", "B">>,
      <<" ", " ">> }

(* Median font size of a page: 0 when no word carries a size.              *)
MedianSizes == {0, 10}
LineSizes(median) == IF median = 0 THEN {<<>>} ELSE {<<>>, <<14>>}

SecId(n) == <<"s", "e", "c", "_">> \o Format03d(n)

SegInit ==
    /\ \E cfg \in KwConfigs :
         LET main_keyword_set ==
                 {_normalize(cfg.main_keywords[i]) :
                     i \in 1..Len(cfg.main_keywords)}
             sub_keyword_set ==
                 {_normalize(cfg.subsection_keywords[i]) :
                     i \in 1..Len(cfg.subsection_keywords)}
         IN  /\ keyword_set = main_keyword_set \cup sub_keyword_set
             /\ subsection_keyword_set = sub_keyword_set
             /\ keyword_patterns = cfg.main_regex \o cfg.subsection_regex
             /\ subsection_regex_patterns = cfg.subsection_regex
    /\ sections = <<>>
    /\ section_id = 0
    /\ page_index = 0
    /\ median_size = 0
    /\ current_parent_id = None
    /\ current_subsection_id = None
    /\ pc = "pages"
    /\ segment_result = None

(* Mutants of PageStart: the open-heading ids survive the page break; the  *)
(* counter restarts on every page.                                         *)
PageStart_KeepOpen(parent, sub, counter) ==
    [current_parent_id |-> parent, current_subsection_id |-> sub,
     section_id |-> counter]

PageStart_ResetCounter(parent, sub, counter) ==
    [current_parent_id |-> None, current_subsection_id |-> None,
     section_id |-> 0]

(* The state a page starts with: both open-heading ids cleared, the        *)
(* counter left alone.                                                     *)
PageStart(parent, sub, counter) ==
    [current_parent_id |-> None, current_subsection_id |-> None,
     section_id |-> counter]

(* for page in pages: the next page is taken up.                           *)
StartPage ==
    /\ pc = "pages"
    /\ page_index < MaxPages
    /\ page_index' = page_index + 1
    /\ \E m \in MedianSizes : median_size' = m
    /\ LET st == PageStart(current_parent_id, current_subsection_id, section_id)
       IN  /\ current_parent_id' = st.current_parent_id
           /\ current_subsection_id' = st.current_subsection_id
           /\ section_id' = st.section_id
    /\ UNCHANGED <<keyword_set, subsection_keyword_set, keyword_patterns,
                   subsection_regex_patterns, sections, pc, segment_result>>
    /\ UNCHANGED <<chunkOnlyVars, clsVars, queryOnlyVars, extraVars>>

(* Mutants of AssignHierarchy.                                             *)
(* A numeric-like heading looks at the open main heading first.            *)
AssignHierarchy_MainFirst(numeric_like, sub_match, cur_parent, cur_sub, new_id) ==
    IF numeric_like THEN
        IF Truthy(cur_parent) THEN
            [parent_id |-> cur_parent, level |-> 2,
             current_parent_id |-> cur_parent, current_subsection_id |-> cur_sub]
        ELSE IF Truthy(cur_sub) THEN
            [parent_id |-> cur_sub, level |-> 3,
             current_parent_id |-> cur_parent, current_subsection_id |-> cur_sub]
        ELSE
            [parent_id |-> None, level |-> 1,
             current_parent_id |-> cur_parent, current_subsection_id |-> cur_sub]
    ELSE IF sub_match THEN
        [parent_id |-> cur_parent, level |-> 2,
         current_parent_id |-> cur_parent, current_subsection_id |-> new_id]
    ELSE
        [parent_id |-> None, level |-> 1,
         current_parent_id |-> new_id, current_subsection_id |-> None]

(* A subsection heading does not become the open subsection.               *)
AssignHierarchy_SubNotOpened(numeric_like, sub_match, cur_parent, cur_sub, new_id) ==
    IF numeric_like THEN
        IF Truthy(cur_sub) THEN
            [parent_id |-> cur_sub, level |-> 3,
             current_parent_id |-> cur_parent, current_subsection_id |-> cur_sub]
        ELSE IF Truthy(cur_parent) THEN
            [parent_id |-> cur_parent, level |-> 2,
             current_parent_id |-> cur_parent, current_subsection_id |-> cur_sub]
        ELSE
            [parent_id |-> None, level |-> 1,
             current_parent_id |-> cur_parent, current_subsection_id |-> cur_sub]
    ELSE IF sub_match THEN
        [parent_id |-> cur_parent, level |-> 2,
         current_parent_id |-> cur_parent, current_subsection_id |-> cur_sub]
    ELSE
        [parent_id |-> None, level |-> 1,
         current_parent_id |-> new_id, current_subsection_id |-> None]

(* A main heading leaves the open subsection in place.                     *)
AssignHierarchy_SubKept(numeric_like, sub_match, cur_parent, cur_sub, new_id) ==
    IF numeric_like THEN
        IF Truthy(cur_sub) THEN
            [parent_id |-> cur_sub, level |-> 3,
             current_parent_id |-> cur_parent, current_subsection_id |-> cur_sub]
        ELSE IF Truthy(cur_parent) THEN
            [parent_id |-> cur_parent, level |-> 2,
             current_parent_id |-> cur_parent, current_subsection_id |-> cur_sub]
        ELSE
            [parent_id |-> None, level |-> 1,
             current_parent_id |-> cur_parent, current_subsection_id |-> cur_sub]
    ELSE IF sub_match THEN
        [parent_id |-> cur_parent, level |-> 2,
         current_parent_id |-> cur_parent, current_subsection_id |-> new_id]
    ELSE
        [parent_id |-> None, level |-> 1,
         current_parent_id |-> new_id, current_subsection_id |-> cur_sub]

(* A subsection heading takes its parent after it became the open          *)
(* subsection, and so names itself.                                        *)
AssignHierarchy_SelfParent(numeric_like, sub_match, cur_parent, cur_sub, new_id) ==
    IF numeric_like THEN
        IF Truthy(cur_sub) THEN
            [parent_id |-> cur_sub, level |-> 3,
             current_parent_id |-> cur_parent, current_subsection_id |-> cur_sub]
        ELSE IF Truthy(cur_parent) THEN
            [parent_id |-> cur_parent, level |-> 2,
             current_parent_id |-> cur_parent, current_subsection_id |-> cur_sub]
        ELSE
            [parent_id |-> None, level |-> 1,
             current_parent_id |-> cur_parent, current_subsection_id |-> cur_sub]
    ELSE IF sub_match THEN
        [parent_id |-> new_id, level |-> 2,
         current_parent_id |-> cur_parent, current_subsection_id |-> new_id]
    ELSE
        [parent_id |-> None, level |-> 1,
         current_parent_id |-> new_id, current_subsection_id |-> None]

(* Mutant of AssignHierarchy: a numeric-like heading under an open main    *)
(* heading with no open subsection is given level 3.                       *)
AssignHierarchy_DeepUnderMain(numeric_like, sub_match, cur_parent, cur_sub, new_id) ==
    IF numeric_like THEN
        IF Truthy(cur_sub) THEN
            [parent_id |-> cur_sub, level |-> 3,
             current_parent_id |-> cur_parent, current_subsection_id |-> cur_sub]
        ELSE IF Truthy(cur_parent) THEN
            [parent_id |-> cur_parent, level |-> 3,
             current_parent_id |-> cur_parent, current_subsection_id |-> cur_sub]
        ELSE
            [parent_id |-> None, level |-> 1,
             current_parent_id |-> cur_parent, current_subsection_id |-> cur_sub]
    ELSE IF sub_match THEN
        [parent_id |-> cur_parent, level |-> 2,
         current_parent_id |-> cur_parent, current_subsection_id |-> new_id]
    ELSE
        [parent_id |-> None, level |-> 1,
         current_parent_id |-> new_id, current_subsection_id |-> None]

(* Level, parent and the open-heading ids after a heading, from what the   *)
(* heading is and the ids open before it.                                  *)
AssignHierarchy(numeric_like, sub_match, cur_parent, cur_sub, new_id) ==
    IF numeric_like THEN
        IF Truthy(cur_sub) THEN
            [parent_id |-> cur_sub, level |-> 3,
             current_parent_id |-> cur_parent, current_subsection_id |-> cur_sub]
        ELSE IF Truthy(cur_parent) THEN
            [parent_id |-> cur_parent, level |-> 2,
             current_parent_id |-> cur_parent, current_subsection_id |-> cur_sub]
        ELSE
            [parent_id |-> None, level |-> 1,
             current_parent_id |-> cur_parent, current_subsection_id |-> cur_sub]
    ELSE IF sub_match THEN
        [parent_id |-> cur_parent, level |-> 2,
         current_parent_id |-> cur_parent, current_subsection_id |-> new_id]
    ELSE
        [parent_id |-> None, level |-> 1,
         current_parent_id |-> new_id, current_subsection_id |-> None]

IsSubsectionMatch(text) ==
    \/ _normalize(text) \in subsection_keyword_set
    \/ _matches_patterns(text, subsection_regex_patterns)

(* for line in lines: one line of the current page.                        *)
ProcessLine(line) ==
    /\ pc = "pages"
    /\ page_index >= 1
    /\ UNCHANGED <<chunkOnlyVars, clsVars, queryOnlyVars, extraVars>>
    /\ LET text == Strip(CollapseWhitespace(line.text))
       IN  IF text = <<>> THEN UNCHANGED segVars
           ELSE IF ~_is_heading_candidate(text, median_size, line.avg_size,
                                          keyword_set, keyword_patterns)
           THEN UNCHANGED segVars
           ELSE
             LET a == AssignHierarchy(_is_numeric_like(text),
                                      IsSubsectionMatch(text),
                                      current_parent_id,
                                      current_subsection_id,
                                      SecId(section_id + 1))
             IN  /\ Len(sections) < MaxSections
                 /\ current_parent_id' = a.current_parent_id
                 /\ current_subsection_id' = a.current_subsection_id
                 /\ section_id' = section_id + 1
                 /\ sections' = Append(sections,
                        [id |-> SecId(section_id + 1),
                         title |-> text,
                         page_number |-> page_index,
                         level |-> a.level,
                         parent_id |-> a.parent_id])
                 /\ UNCHANGED <<keyword_set, subsection_keyword_set,
                                keyword_patterns, subsection_regex_patterns,
                                page_index, median_size, pc, segment_result>>

(* return {"sections": sections, "section_count": len(sections)}           *)
Return ==
    /\ pc = "pages"
    /\ pc' = "done"
    /\ segment_result' =
          [sections |-> sections, section_count |-> Len(sections)]
    /\ UNCHANGED <<keyword_set, subsection_keyword_set, keyword_patterns,
                   subsection_regex_patterns, page_index, median_size,
                   current_parent_id, current_subsection_id, section_id,
                   sections>>
    /\ UNCHANGED <<chunkOnlyVars, clsVars, queryOnlyVars, extraVars>>

SegNext ==
    \/ StartPage
    \/ \E t \in SegTexts : \E sz \in LineSizes(median_size) :
          ProcessLine([text |-> t, avg_size |-> sz])
    \/ Return

(* No run of the hierarchy builder.                                        *)
SegIdle ==
    /\ keyword_set = {}
    /\ subsection_keyword_set = {}
    /\ keyword_patterns = <<>>
    /\ subsection_regex_patterns = <<>>
    /\ section_id = 0
    /\ median_size = 0
    /\ current_parent_id = None
    /\ current_subsection_id = None
    /\ segment_result = None

(* No run of the chunker.                                                  *)
ChunkIdle ==
    /\ page_number = <<>>
    /\ lines = <<>>
    /\ line_index = 0
    /\ lines_read = 0
    /\ section_cursor = 0
    /\ buffer = <<>>
    /\ current_kind = "paragraph"
    /\ current_section_id = None
    /\ chunk_id = 0
    /\ chunks = <<>>
    /\ chunk_result = None

(* No call of a classifier.                                                *)
ClsIdle == call = None /\ ret = <<>>

(* No file, no run of the pipeline, no walk.                               *)
ExtraIdle ==
    /\ path = <<>>
    /\ matches = <<>>
    /\ contexts = <<>>
    /\ kw_file = <<>>
    /\ kw_log = <<>>
    /\ outputs = {}
    /\ raised = ""
    /\ steps = <<>>

(* No call of a query function.                                            *)
QueryIdle ==
    /\ chain = <<>>
    /\ current = <<>>
    /\ stack = <<>>
    /\ descendants = <<>>
    /\ context = <<>>

(***************************************************************************)
(* chunk/chunker.py: text matching and the table-line classifier.          *)
(***************************************************************************)
TableMinDigits == 6
TableMinPercentDigits == 2
NumericMinDigits == 2
NumericMinLetterCap == 2
NumericDigitsPerLetter == 3
TitleTokenMinLen == 2

chunker_normalize_text(value) ==
    Join(Split(Upper(StripAccents(value))), <<" ">>)

_line_matches_title(line, title) ==
    LET normalized_line == chunker_normalize_text(line)
        normalized_title == chunker_normalize_text(title)
        all_tokens == Split(normalized_title)
        LongEnough(token) == Len(token) > TitleTokenMinLen
        tokens == SelectSeq(all_tokens, LongEnough)
    IN  IF normalized_line = <<>> \/ normalized_title = <<>> THEN FALSE
        ELSE IF Contains(normalized_line, normalized_title) THEN TRUE
        ELSE IF tokens = <<>> THEN FALSE
        ELSE \A i \in 1..Len(tokens) : Contains(normalized_line, tokens[i])

(* Mutant of chunker_is_numeric_like: the thresholds of the hierarchy      *)
(* builder's predicate.                                                    *)
chunker_is_numeric_like_AsSectionParser(text) ==
    IF FullMatchNumeric(text) THEN TRUE
    ELSE CountDigits(text) >= 1 /\ CountLetters(text) <= 2

(* _is_numeric_like of chunker.py                                          *)
chunker_is_numeric_like(text) ==
    IF FullMatchNumeric(text) THEN TRUE
    ELSE /\ CountDigits(text) >= NumericMinDigits
         /\ CountLetters(text) <=
               Max2(NumericMinLetterCap,
                    CountDigits(text) \div NumericDigitsPerLetter)

(* Mutant of _is_table_line: the percent rule asks for one digit only.     *)
_is_table_line_OneDigitPercent(text) ==
    IF chunker_is_numeric_like(text) THEN TRUE
    ELSE IF CountDigits(text) >= TableMinDigits THEN TRUE
    ELSE IF CountChar(text, "%") >= 1 /\ CountDigits(text) >= 1 THEN TRUE
    ELSE FALSE

_is_table_line(text) ==
    IF chunker_is_numeric_like(text) THEN TRUE
    ELSE IF CountDigits(text) >= TableMinDigits THEN TRUE
    ELSE IF CountChar(text, "%") >= 1
            /\ CountDigits(text) >= TableMinPercentDigits THEN TRUE
    ELSE FALSE

(***************************************************************************)
(* The classifiers as pure functions: one call, arguments drawn from       *)
(* bounded sets, and its return value (ret is empty until the call         *)
(* returns).                                                               *)
(***************************************************************************)
RECURSIVE SeqsUpTo(_, _)
SeqsUpTo(S, n) ==
    IF n = 0 THEN {<<>>}
    ELSE LET shorter == SeqsUpTo(S, n - 1)
         IN  shorter \cup {Append(t, c) : t \in shorter, c \in S}

(* Every text of at most MaxSeqLen characters over a small alphabet: an    *)
(* upper-case letter, a lower-case letter, a digit, a percent sign, a      *)
(* blank.                                                                  *)
SeqAlphabet == {"A", "b", "7", "%", " "}
SeqTexts == SeqsUpTo(SeqAlphabet, MaxSeqLen)

(* The same texts followed by LongPad upper-case letters: texts of about   *)
(* UpperMaxLen characters.                                                 *)
LongTexts == {t \o Rep("A", LongPad) : t \in SeqTexts}

(* Texts by their character counts: d digits, l letters, p percent signs,  *)
(* s blanks and o other characters, in two arrangements.                   *)
CountTexts ==
    LET Fwd(d, l, p, sp, o) ==
            Rep("7", d) \o Rep("a", l) \o Rep("%", p) \o Rep(" ", sp)
                \o Rep("-", o)
        Bwd(d, l, p, sp, o) ==
            Rep("-", o) \o Rep(" ", sp) \o Rep("%", p) \o Rep("a", l)
                \o Rep("7", d)
    IN  UNION { {Fwd(d, l, p, sp, o), Bwd(d, l, p, sp, o)} :
                  d \in 0..MaxDigits, l \in 0..MaxLetters,
                  p \in 0..1, sp \in 0..1, o \in 0..1 }

HeadingKeywordSets == { {}, {_normalize(<<"a", "b", "7">>)} }
HeadingPatternLists == { <<>>, <<<<"b", " ", "7">>>> }
HeadingSizes == { <<>>, <<11>>, <<12>> }

(* The calls of section 8 of the specification.                            *)
ExampleAllCaps ==
    [fn |-> "_is_heading_candidate", text |-> <<"Q", "U", "A", "R", "T", "E", "R", "L", "Y", " ", "R", "E", "P", "O", "R", "T">>,
     median_size |-> 10, size |-> <<>>,
     keyword_set |-> {}, keyword_patterns |-> <<>>]
ExampleSmallFont ==
    [fn |-> "_is_heading_candidate", text |-> <<"s", "o", "m", "e", " ", "n", "o", "r", "m", "a", "l", " ", "s", "e", "n", "t", "e", "n", "c", "e", ".">>,
     median_size |-> 10, size |-> <<9>>,
     keyword_set |-> {}, keyword_patterns |-> <<>>]
ExampleLargeFont ==
    [fn |-> "_is_heading_candidate", text |-> <<"O", "v", "e", "r", "v", "i", "e", "w">>,
     median_size |-> 10, size |-> <<14>>,
     keyword_set |-> {}, keyword_patterns |-> <<>>]

HeadingCalls ==
    { [fn |-> "_is_heading_candidate", text |-> t, median_size |-> m,
       size |-> sz, keyword_set |-> ks, keyword_patterns |-> ps] :
        t \in SeqTexts \cup LongTexts, m \in MedianSizes,
        sz \in HeadingSizes, ks \in HeadingKeywordSets,
        ps \in HeadingPatternLists }
    \cup {ExampleAllCaps, ExampleSmallFont, ExampleLargeFont}

TextCalls ==
    { [fn |-> f, text |-> t] :
        f \in {"_is_numeric_like", "chunker._is_numeric_like",
               "_is_table_line"},
        t \in CountTexts \cup SeqTexts }

ClsInit ==
    /\ call \in HeadingCalls \cup TextCalls
    /\ ret = <<>>

CallIsHeadingCandidate ==
    /\ ret = <<>>
    /\ call.fn = "_is_heading_candidate"
    /\ ret' = <<_is_heading_candidate(call.text, call.median_size, call.size,
                                    call.keyword_set, call.keyword_patterns)>>
    /\ UNCHANGED <<call, segVars, chunkOnlyVars, queryOnlyVars, extraVars>>

CallIsNumericLike ==
    /\ ret = <<>>
    /\ call.fn = "_is_numeric_like"
    /\ ret' = <<_is_numeric_like(call.text)>>
    /\ UNCHANGED <<call, segVars, chunkOnlyVars, queryOnlyVars, extraVars>>

CallChunkerIsNumericLike ==
    /\ ret = <<>>
    /\ call.fn = "chunker._is_numeric_like"
    /\ ret' = <<chunker_is_numeric_like(call.text)>>
    /\ UNCHANGED <<call, segVars, chunkOnlyVars, queryOnlyVars, extraVars>>

CallIsTableLine ==
    /\ ret = <<>>
    /\ call.fn = "_is_table_line"
    /\ ret' = <<_is_table_line(call.text)>>
    /\ UNCHANGED <<call, segVars, chunkOnlyVars, queryOnlyVars, extraVars>>

ClsNext ==
    \/ CallIsHeadingCandidate
    \/ CallIsNumericLike
    \/ CallChunkerIsNumericLike
    \/ CallIsTableLine

(***************************************************************************)
(* chunk/chunker.py: chunk_sections.                                       *)
(***************************************************************************)
IsStr(x) == x # None

(* section_index.get(id): the section _build_section_index keeps for id    *)
(* (the last one with that id), as a sequence of length 0 or 1.            *)
SectionIndexGet(secs, id) ==
    LET hits == {j \in 1..Len(secs) : IsStr(secs[j].id) /\ secs[j].id = id}
    IN  IF hits = {} THEN <<>> ELSE <<secs[SetMax(hits)]>>

(* Mutant of SectionPathFrom: a title is appended, not inserted in front.   *)
RECURSIVE SectionPathFrom_LeafFirst(_, _, _)
SectionPathFrom_LeafFirst(cur, titles, secs) ==
    IF cur = <<>> THEN titles
    ELSE LET title == cur[1].title
             parent_id == cur[1].parent_id
             titles2 == IF IsStr(title) THEN Append(titles, title) ELSE titles
         IN  IF ~IsStr(parent_id) THEN titles2
             ELSE SectionPathFrom_LeafFirst(SectionIndexGet(secs, parent_id),
                                            titles2, secs)

(* The while loop of _build_section_path, from current = cur on with the   *)
(* path collected so far.                                                  *)
RECURSIVE SectionPathFrom(_, _, _)
SectionPathFrom(cur, titles, secs) ==
    IF cur = <<>> THEN titles
    ELSE LET title == cur[1].title
             parent_id == cur[1].parent_id
             titles2 == IF IsStr(title) THEN <<title>> \o titles ELSE titles
         IN  IF ~IsStr(parent_id) THEN titles2
             ELSE SectionPathFrom(SectionIndexGet(secs, parent_id), titles2, secs)

_build_section_path(id, secs) ==
    SectionPathFrom(SectionIndexGet(secs, id), <<>>, secs)

(* page_sections.get(page_number, []) of _collect_page_sections            *)
SectionsOnPage(secs, pn) ==
    LET OnPage(sec) == sec.page_number = pn
    IN  SelectSeq(secs, OnPage)

ChunkId(n) == <<"c", "h", "u", "n", "k", "_">> \o Format03d(n)

(* Mutant of _flush_chunk: an empty buffer is appended as well.             *)
_flush_chunk_NoGuard(cs, cid, sid, secs, pn, kind, buf) ==
    Append(cs,
        [id |-> ChunkId(cid),
         section_id |-> sid,
         section_path |-> _build_section_path(sid, secs),
         page_number |-> pn,
         kind |-> kind,
         text |-> Join(buf, <<"\n">>),
         line_count |-> Len(buf)])

(* Mutant of _flush_chunk: the text of the chunk is the first buffered     *)
(* line only.                                                              *)
_flush_chunk_FirstLineOnly(cs, cid, sid, secs, pn, kind, buf) ==
    IF buf = <<>> THEN cs
    ELSE Append(cs,
            [id |-> ChunkId(cid),
             section_id |-> sid,
             section_path |-> _build_section_path(sid, secs),
             page_number |-> pn,
             kind |-> kind,
             text |-> Head(buf),
             line_count |-> Len(buf)])

(* The chunks after _flush_chunk.                                          *)
_flush_chunk(cs, cid, sid, secs, pn, kind, buf) ==
    IF buf = <<>> THEN cs
    ELSE Append(cs,
            [id |-> ChunkId(cid),
             section_id |-> sid,
             section_path |-> _build_section_path(sid, secs),
             page_number |-> pn,
             kind |-> kind,
             text |-> Join(buf, <<"\n">>),
             line_count |-> Len(buf)])

(* The section lists the chunker is handed: lists the hierarchy builder    *)
(* emits for pages with the headings REVENUE, COSTS and 50%, one list      *)
(* whose only section has a parent_id that no section carries, and one     *)
(* whose first section has a title that is no string.                      *)
Sec(n, title, pn, level, parent) ==
    [id |-> SecId(n), title |-> title, page_number |-> pn, level |-> level,
     parent_id |-> parent]
TitleRevenue == <<"R", "E", "V", "E", "N", "U", "E">>
TitleCosts == <<"C", "O", "S", "T", "S">>
TitlePercent == <<"5", "0", "%">>
SectionLists ==
    { <<>>,
      <<Sec(1, TitleRevenue, 1, 1, None)>>,
      <<Sec(1, TitleRevenue, 1, 1, None), Sec(2, TitleCosts, 1, 1, None)>>,
      <<Sec(1, TitleRevenue, 1, 1, None), Sec(2, TitleCosts, 1, 2, SecId(1))>>,
      <<Sec(1, TitleRevenue, 1, 1, None), Sec(2, TitleCosts, 2, 1, None)>>,
      <<Sec(1, TitleCosts, 2, 1, None)>>,
      <<Sec(1, TitleRevenue, 1, 1, None), Sec(2, TitleCosts, 1, 2, SecId(1)),
        Sec(3, TitlePercent, 1, 3, SecId(2))>>,
      <<Sec(2, TitleCosts, 1, 2, SecId(1))>>,
      <<Sec(1, None, 1, 1, None), Sec(2, TitleCosts, 1, 1, None)>> }

(* The raw lines of a page text.                                           *)
ChunkTexts ==
    { <<"R", "E", "V", "E", "N", "U", "E">>,
      <<" ", "C", "o", "s", "t", "s">>,
      <<"5", "0", "%">>,
      <<"S", "o", "m", "e", " ", "t", "e", "x", "t", ".">>,
      <<" ", " ">> }

ChunkInit ==
    /\ sections \in SectionLists
    /\ pc = "pages"
    /\ page_index = 0
    /\ page_number = <<>>
    /\ lines = <<>>
    /\ line_index = 0
    /\ lines_read = 0
    /\ section_cursor = 0
    /\ buffer = <<>>
    /\ current_kind = "paragraph"
    /\ current_section_id = None
    /\ chunk_id = 0
    /\ chunks = <<>>
    /\ chunk_result = None

(* buffer: list[str] = [] at the start of a page with lines.  Mutant: the   *)
(* buffer of the page before is kept.                                      *)
FreshBuffer_Carried(buf) == buf

FreshBuffer(buf) == <<>>

(* chunk_id += 1.  Mutant: the counter is left as it is.                   *)
NextChunkId_Same(n) == n

NextChunkId(n) == n + 1

(* chunk_id += 1 ahead of the flush at a heading match, whatever the       *)
(* buffer holds.  Mutant: only when the buffer holds a line.               *)
HeadingChunkId_OnlyIfBuffered(n, buf) ==
    IF buf = <<>> THEN n ELSE NextChunkId(n)

HeadingChunkId(n, buf) == NextChunkId(n)

(* if not current_section_id: continue.  Mutant: the line is kept.         *)
Discards_Never(cur_sid) == FALSE

Discards(cur_sid) == ~Truthy(cur_sid)

(* The locals after a heading match and the flush of the buffer.  Mutants: *)
(* the buffer is not cleared; the cursor stays where it is.                *)
MatchedState_CursorKept(buf, expected, cursor) ==
    [buffer |-> <<>>, current_kind |-> "paragraph",
     current_section_id |-> expected.id, section_cursor |-> cursor]

MatchedState_BufferKept(buf, expected, cursor) ==
    [buffer |-> buf, current_kind |-> "paragraph",
     current_section_id |-> expected.id, section_cursor |-> cursor + 1]

MatchedState(buf, expected, cursor) ==
    [buffer |-> <<>>, current_kind |-> "paragraph",
     current_section_id |-> expected.id, section_cursor |-> cursor + 1]

(* [line.strip() for line in text.splitlines() if line.strip()]            *)
NonBlankLines(raw) ==
    LET stripped == [i \in 1..Len(raw) |-> Strip(raw[i])]
        NonBlank(line) == line # <<>>
    IN  SelectSeq(stripped, NonBlank)

(* for page in pages: the next page, with its page_number (absent or the   *)
(* page's position) and the raw lines of its text.  A page without an      *)
(* integer page_number or without a non-blank line is passed over.         *)
ChunkStartPage(page) ==
    /\ pc = "pages"
    /\ page_index < MaxPages
    /\ page_index' = page_index + 1
    /\ lines_read' = lines_read + Len(page.text)
    /\ page_number' = page.page_number
    /\ IF page.page_number = <<>>
       THEN UNCHANGED <<pc, lines, line_index, section_cursor, buffer,
                        current_kind>>
       ELSE /\ lines' = NonBlankLines(page.text)
            /\ IF lines' = <<>>
               THEN UNCHANGED <<pc, line_index, section_cursor, buffer,
                                current_kind>>
               ELSE /\ pc' = "lines"
                    /\ line_index' = 0
                    /\ section_cursor' = 0
                    /\ buffer' = FreshBuffer(buffer)
                    /\ current_kind' = "paragraph"
    /\ UNCHANGED <<sections, current_section_id, chunk_id, chunks,
                   chunk_result>>
    /\ UNCHANGED <<segOnlyVars, clsVars, queryOnlyVars, extraVars>>

(* Whether a line of another kind than the buffered ones flushes the       *)
(* buffer first.  Mutant: it never does.                                   *)
NeedsFlush_Never(kind, cur_kind, buf) == FALSE

NeedsFlush(kind, cur_kind, buf) == kind # cur_kind /\ buf # <<>>

(* for line in lines: one line of the current page.                        *)
ChunkLine ==
    /\ pc = "lines"
    /\ line_index < Len(lines)
    /\ line_index' = line_index + 1
    /\ LET line == lines[line_index + 1]
           pn == page_number[1]
           sections_on_page == SectionsOnPage(sections, pn)
           expected == sections_on_page[section_cursor + 1]
           is_match ==
               /\ section_cursor < Len(sections_on_page)
               /\ IsStr(expected.title)
               /\ _line_matches_title(line, expected.title)
       IN  IF is_match THEN
               /\ IF Truthy(current_section_id)
                  THEN /\ chunk_id' = HeadingChunkId(chunk_id, buffer)
                       /\ chunks' = _flush_chunk(chunks, chunk_id',
                                        current_section_id, sections, pn,
                                        current_kind, buffer)
                  ELSE UNCHANGED <<chunk_id, chunks>>
               /\ LET after == MatchedState(buffer, expected, section_cursor)
                  IN  /\ buffer' = after.buffer
                      /\ current_kind' = after.current_kind
                      /\ current_section_id' = after.current_section_id
                      /\ section_cursor' = after.section_cursor
           ELSE IF Discards(current_section_id) THEN
               UNCHANGED <<chunk_id, chunks, buffer, current_kind,
                           current_section_id, section_cursor>>
           ELSE
               LET kind == IF _is_table_line(line) THEN "table"
                           ELSE "paragraph"
               IN  /\ IF NeedsFlush(kind, current_kind, buffer)
                      THEN /\ chunk_id' = NextChunkId(chunk_id)
                           /\ chunks' = _flush_chunk(chunks, chunk_id',
                                            current_section_id, sections,
                                            pn, current_kind, buffer)
                           /\ buffer' = <<line>>
                      ELSE /\ UNCHANGED <<chunk_id, chunks>>
                           /\ buffer' = Append(buffer, line)
                   /\ current_kind' = kind
                   /\ UNCHANGED <<current_section_id, section_cursor>>
    /\ UNCHANGED <<sections, pc, page_index, page_number, lines, lines_read,
                   chunk_result>>
    /\ UNCHANGED <<segOnlyVars, clsVars, queryOnlyVars, extraVars>>

(* After the last line of the page: what is left in the buffer is flushed. *)
ChunkEndPage ==
    /\ pc = "lines"
    /\ line_index = Len(lines)
    /\ pc' = "pages"
    /\ IF Truthy(current_section_id) /\ buffer # <<>>
       THEN /\ chunk_id' = NextChunkId(chunk_id)
            /\ chunks' = _flush_chunk(chunks, chunk_id',
                             current_section_id, sections, page_number[1],
                             current_kind, buffer)
       ELSE UNCHANGED <<chunk_id, chunks>>
    /\ UNCHANGED <<sections, page_index, page_number, lines, line_index,
                   lines_read, section_cursor, buffer, current_kind,
                   current_section_id, chunk_result>>
    /\ UNCHANGED <<segOnlyVars, clsVars, queryOnlyVars, extraVars>>

(* return {"chunks": chunks, "chunk_count": len(chunks)}                   *)
ChunkReturn ==
    /\ pc = "pages"
    /\ pc' = "done"
    /\ chunk_result' = [chunks |-> chunks, chunk_count |-> Len(chunks)]
    /\ UNCHANGED <<sections, page_index, page_number, lines, line_index,
                   lines_read, section_cursor, buffer, current_kind,
                   current_section_id, chunk_id, chunks>>
    /\ UNCHANGED <<segOnlyVars, clsVars, queryOnlyVars, extraVars>>

ChunkNext ==
    \/ \E pn \in {<<>>, <<page_index + 1>>} :
       \E raw \in SeqsUpTo(ChunkTexts, MaxLines - lines_read) :
          ChunkStartPage([page_number |-> pn, text |-> raw])
    \/ ChunkLine
    \/ ChunkEndPage
    \/ ChunkReturn

(***************************************************************************)
(* query/sections_query.py: get_parent_chain, _collect_descendants and     *)
(* build_section_context_by_id.                                            *)
(***************************************************************************)
(* The most turns of a loop that are followed: a walk over sections whose  *)
(* parent links form no cycle takes fewer than MaxWalk turns.              *)
MaxWalk == 4

(* An id that no section carries.                                          *)
UnknownId == SecId(9)

(* section_index.get(id) of build_section_index                            *)
QueryIndexGet(secs, id) ==
    LET hits == {j \in 1..Len(secs) : IsStr(secs[j].id) /\ secs[j].id = id}
    IN  IF hits = {} THEN <<>> ELSE <<secs[SetMax(hits)]>>

(* children_map.get(parent_id, []) of build_children_map                   *)
ChildrenMapGet(secs, pid) ==
    LET ChildOf(sec) == sec.parent_id = pid
    IN  SelectSeq(secs, ChildOf)

(* parent_id in children_map                                               *)
InChildrenMap(secs, pid) ==
    \E j \in 1..Len(secs) : secs[j].parent_id = pid

(* chain.insert(0, parent).  Mutant: chain.append(parent).                 *)
ChainInsert_Append(chn, parent) == Append(chn, parent)

ChainInsert(chn, parent) == <<parent>> \o chn

(* stack.extend(children_map.get(current_id, [])).  Mutant: nothing is     *)
(* pushed.                                                                 *)
StackExtend_Nothing(stk, children) == stk

StackExtend(stk, children) == stk \o children

(* The siblings of build_section_context_by_id.  Mutant: the section       *)
(* itself is not left out.                                                 *)
Siblings_WithSelf(secs, include_siblings, parent_id, sid) ==
    IF include_siblings /\ InChildrenMap(secs, parent_id)
    THEN ChildrenMapGet(secs, parent_id)
    ELSE <<>>

Siblings(secs, include_siblings, parent_id, sid) ==
    LET Other(sec) == sec.id # sid
    IN  IF include_siblings /\ InChildrenMap(secs, parent_id)
        THEN SelectSeq(ChildrenMapGet(secs, parent_id), Other)
        ELSE <<>>

(* _normalize_text of sections_query.py                                    *)
query_normalize_text(value) == Join(Split(Lower(value)), <<" ">>)

(* _normalize_for_match                                                    *)
_normalize_for_match(value) == query_normalize_text(StripAccents(value))

(* find_sections_by_title.  Mutant: every section is a match.              *)
find_sections_by_title_All(secs, query, exact) == secs

find_sections_by_title(secs, query, exact) ==
    LET normalized_query == query_normalize_text(query)
        IsMatch(sec) ==
            /\ IsStr(sec.title)
            /\ IF exact
               THEN query_normalize_text(sec.title) = normalized_query
               ELSE Contains(query_normalize_text(sec.title),
                             normalized_query)
    IN  SelectSeq(secs, IsMatch)

(* The section lists a query is made over: section k has the id sec_00k    *)
(* and as parent_id None, the id of any section of the list (itself and    *)
(* later ones as well, so that there are loops) or an id no section        *)
(* carries; the last of MaxSections sections is on page 2.                 *)
QueryParentIds == {None, UnknownId} \cup {SecId(j) : j \in 1..MaxSections}
QuerySectionLists ==
    UNION { { [k \in 1..n |->
                 Sec(k, TitleRevenue, IF k = MaxSections THEN 2 ELSE 1, 1,
                     ps[k])] : ps \in [1..n -> QueryParentIds] } :
            n \in 0..MaxSections }
QueryIds == {UnknownId} \cup {SecId(j) : j \in 1..MaxSections}

(* Title queries: the title of every section, a part of it, a title of no  *)
(* section, and a blank.                                                   *)
TitleQueries ==
    { <<"R", "e", "v", "e", "n", "u", "e", " ">>,
      <<"e", "v", "e", "n">>,
      <<"c", "o", "s", "t", "s">>,
      <<" ">> }
QueryCalls ==
    { [fn |-> f, section_id |-> id, include_children |-> TRUE,
       include_siblings |-> TRUE, include_descendants |-> FALSE] :
        f \in {"get_parent_chain", "_collect_descendants"}, id \in QueryIds }
    \cup
    { [fn |-> "build_section_context_by_id", section_id |-> id,
       include_children |-> ic, include_siblings |-> is,
       include_descendants |-> idesc] :
        id \in QueryIds, ic \in BOOLEAN, is \in BOOLEAN, idesc \in BOOLEAN }
    \cup
    { [fn |-> "build_section_context", query |-> q, exact |-> e,
       include_children |-> ic] :
        q \in TitleQueries, e \in BOOLEAN, ic \in BOOLEAN }

QueryInit ==
    /\ sections \in QuerySectionLists
    /\ pc = "call"
    /\ page_index = 0
    /\ call \in QueryCalls
    /\ ret = <<>>
    /\ QueryIdle

(* get_parent_chain up to its loop.                                        *)
GetParentChainCall ==
    /\ pc = "call"
    /\ call.fn = "get_parent_chain"
    /\ chain' = <<>>
    /\ current' = QueryIndexGet(sections, call.section_id)
    /\ pc' = "chain"
    /\ UNCHANGED <<sections, page_index, call, ret, stack, descendants,
                   context>>
    /\ UNCHANGED <<segOnlyVars, chunkOnlyVars, extraVars>>

(* build_section_context_by_id up to the loop of get_parent_chain: None    *)
(* for an id that is not in the index.                                     *)
BuildSectionContextByIdCall ==
    /\ pc = "call"
    /\ call.fn = "build_section_context_by_id"
    /\ LET match == QueryIndexGet(sections, call.section_id)
       IN  IF match = <<>>
           THEN /\ ret' = << <<>> >>
                /\ pc' = "done"
                /\ UNCHANGED <<chain, current>>
           ELSE /\ chain' = <<>>
                /\ current' = match
                /\ pc' = "chain"
                /\ UNCHANGED ret
    /\ UNCHANGED <<sections, page_index, call, stack, descendants, context>>
    /\ UNCHANGED <<segOnlyVars, chunkOnlyVars, extraVars>>

(* One turn of the while loop of get_parent_chain, or its end: the chain   *)
(* is returned, to the caller, to build_section_context_by_id or to        *)
(* build_section_context, which appends the context of the match.          *)
GetParentChainLoop ==
    /\ pc = "chain"
    /\ LET parent_id == current[1].parent_id
           parent == QueryIndexGet(sections, parent_id)
           goes_on == current # <<>> /\ IsStr(parent_id) /\ parent # <<>>
       IN  IF goes_on
           THEN /\ Len(chain) < MaxWalk
                /\ chain' = ChainInsert(chain, parent[1])
                /\ current' = parent
                /\ UNCHANGED <<pc, ret, matches, contexts>>
           ELSE IF call.fn = "get_parent_chain"
           THEN /\ ret' = <<chain>>
                /\ pc' = "done"
                /\ UNCHANGED <<chain, current, matches, contexts>>
           ELSE IF call.fn = "build_section_context"
           THEN /\ contexts' = Append(contexts,
                       [match |-> Head(matches),
                        parents |-> chain,
                        children |->
                            IF call.include_children
                            THEN <<ChildrenMapGet(sections,
                                                  Head(matches).id)>>
                            ELSE <<>>])
                /\ matches' = Tail(matches)
                /\ pc' = "matches"
                /\ UNCHANGED <<chain, current, ret>>
           ELSE /\ pc' = "relations"
                /\ UNCHANGED <<chain, current, ret, matches, contexts>>
    /\ UNCHANGED <<sections, page_index, call, stack, descendants, context>>
    /\ UNCHANGED <<segOnlyVars, chunkOnlyVars, path, pipeVars>>

(* build_section_context_by_id after get_parent_chain: the relations, and  *)
(* the return unless the descendants are asked for.  No pages and no       *)
(* chunks are handed in.                                                   *)
BuildSectionContextByIdRelations ==
    /\ pc = "relations"
    /\ LET match == QueryIndexGet(sections, call.section_id)[1]
           parents == chain
           siblings == Siblings(sections, call.include_siblings,
                                match.parent_id, call.section_id)
           children == ChildrenMapGet(sections, call.section_id)
           relations ==
               <<[kind |-> "parent", sections |-> parents]>>
               \o (IF call.include_children
                   THEN <<[kind |-> "child", sections |-> children]>>
                   ELSE <<>>)
               \o (IF call.include_siblings
                   THEN <<[kind |-> "sibling", sections |-> siblings]>>
                   ELSE <<>>)
       IN  /\ context' = <<[match |-> match, relations |-> relations]>>
           /\ IF call.include_descendants
              THEN /\ descendants' = <<>>
                   /\ stack' = ChildrenMapGet(sections, call.section_id)
                   /\ pc' = "descendants"
                   /\ UNCHANGED ret
              ELSE /\ ret' = <<context'>>
                   /\ pc' = "done"
                   /\ UNCHANGED <<stack, descendants>>
    /\ UNCHANGED <<sections, page_index, call, chain, current>>
    /\ UNCHANGED <<segOnlyVars, chunkOnlyVars, extraVars>>

(* _collect_descendants up to its loop.                                    *)
CollectDescendantsCall ==
    /\ pc = "call"
    /\ call.fn = "_collect_descendants"
    /\ descendants' = <<>>
    /\ stack' = ChildrenMapGet(sections, call.section_id)
    /\ pc' = "descendants"
    /\ UNCHANGED <<sections, page_index, call, ret, chain, current, context>>
    /\ UNCHANGED <<segOnlyVars, chunkOnlyVars, extraVars>>

(* One turn of the while loop of _collect_descendants, or its end: the     *)
(* list is returned, to the caller or as the last relation of the context. *)
CollectDescendantsLoop ==
    /\ pc = "descendants"
    /\ IF stack # <<>>
       THEN /\ Len(descendants) < MaxWalk
            /\ LET popped == stack[Len(stack)]
                   rest == SubSeq(stack, 1, Len(stack) - 1)
               IN  /\ current' = <<popped>>
                   /\ descendants' = Append(descendants, popped)
                   /\ stack' = IF IsStr(popped.id)
                               THEN StackExtend(rest,
                                        ChildrenMapGet(sections, popped.id))
                               ELSE rest
            /\ UNCHANGED <<pc, ret, context>>
       ELSE /\ pc' = "done"
            /\ IF call.fn = "_collect_descendants"
               THEN ret' = <<descendants>> /\ UNCHANGED context
               ELSE /\ context' =
                        <<[context[1] EXCEPT !.relations =
                             Append(@, [kind |-> "descendant",
                                        sections |-> descendants])]>>
                    /\ ret' = <<context'>>
            /\ UNCHANGED <<stack, descendants, current>>
    /\ UNCHANGED <<sections, page_index, call, chain>>
    /\ UNCHANGED <<segOnlyVars, chunkOnlyVars, extraVars>>

(* build_section_context up to its loop over the matches.  No pages and   *)
(* no chunks are handed in.                                                *)
BuildSectionContextCall ==
    /\ pc = "call"
    /\ call.fn = "build_section_context"
    /\ matches' = find_sections_by_title(sections, call.query, call.exact)
    /\ contexts' = <<>>
    /\ pc' = "matches"
    /\ UNCHANGED <<sections, page_index, call, ret, queryOnlyVars, path,
                   pipeVars>>
    /\ UNCHANGED <<segOnlyVars, chunkOnlyVars>>

(* for match in matches: the next match, up to the loop of                 *)
(* get_parent_chain (a match whose id is no string is passed over); after  *)
(* the last one the contexts are returned.  A context carries children     *)
(* only when they are asked for.                                           *)
BuildSectionContextMatch ==
    /\ pc = "matches"
    /\ IF matches = <<>>
       THEN /\ ret' = <<contexts>>
            /\ pc' = "done"
            /\ UNCHANGED <<matches, chain, current>>
       ELSE IF ~IsStr(Head(matches).id)
       THEN /\ matches' = Tail(matches)
            /\ UNCHANGED <<pc, ret, chain, current>>
       ELSE /\ chain' = <<>>
            /\ current' = QueryIndexGet(sections, Head(matches).id)
            /\ pc' = "chain"
            /\ UNCHANGED <<ret, matches>>
    /\ UNCHANGED <<sections, page_index, call, stack, descendants, context,
                   contexts, path, pipeVars>>
    /\ UNCHANGED <<segOnlyVars, chunkOnlyVars>>

QueryNext ==
    \/ BuildSectionContextCall
    \/ BuildSectionContextMatch
    \/ GetParentChainCall
    \/ BuildSectionContextByIdCall
    \/ GetParentChainLoop
    \/ BuildSectionContextByIdRelations
    \/ CollectDescendantsCall
    \/ CollectDescendantsLoop

(***************************************************************************)
(* chunk/chunker.py: one call of _flush_chunk, the loop of                 *)
(* _build_section_path taken turn by turn, over section lists whose parent *)
(* links may form a cycle.                                                 *)
(***************************************************************************)
FlushLines == { <<>>, << <<"5", "0", "%">> >> }
FlushCalls ==
    { [fn |-> "_flush_chunk", chunk_id |-> 1, section_id |-> id,
       page_number |-> 1, kind |-> "table", lines |-> ls] :
        id \in QueryIds, ls \in FlushLines }

FlushInit ==
    /\ sections \in QuerySectionLists
    /\ pc = "call"
    /\ page_index = 0
    /\ call \in FlushCalls
    /\ ret = <<>>
    /\ ChunkIdle
    /\ QueryIdle
    /\ ExtraIdle

(* _flush_chunk up to the loop of _build_section_path: it returns at once  *)
(* when there are no lines.                                                *)
FlushChunkCall ==
    /\ pc = "call"
    /\ call.fn = "_flush_chunk"
    /\ IF call.lines = <<>>
       THEN /\ pc' = "done"
            /\ ret' = <<None>>
            /\ UNCHANGED <<path, current>>
       ELSE /\ pc' = "path"
            /\ path' = <<>>
            /\ current' = SectionIndexGet(sections, call.section_id)
            /\ UNCHANGED ret
    /\ UNCHANGED <<sections, page_index, call, chunkOnlyVars, segOnlyVars,
                   chain, stack, descendants, context, matches, contexts,
                   pipeVars>>

(* One turn of the while loop of _build_section_path; when the loop ends,  *)
(* _flush_chunk appends the chunk with the path and returns.               *)
BuildSectionPathLoop ==
    /\ pc = "path"
    /\ LET title == current[1].title
           parent_id == current[1].parent_id
           titled == IF current # <<>> /\ IsStr(title)
                     THEN <<title>> \o path ELSE path
           goes_on == current # <<>> /\ IsStr(parent_id)
       IN  IF goes_on
           THEN /\ Len(path) < MaxWalk
                /\ path' = titled
                /\ current' = SectionIndexGet(sections, parent_id)
                /\ UNCHANGED <<pc, ret, chunks>>
           ELSE /\ path' = titled
                /\ chunks' = Append(chunks,
                       [id |-> ChunkId(call.chunk_id),
                        section_id |-> call.section_id,
                        section_path |-> titled,
                        page_number |-> call.page_number,
                        kind |-> call.kind,
                        text |-> Join(call.lines, <<"\n">>),
                        line_count |-> Len(call.lines)])
                /\ ret' = <<None>>
                /\ pc' = "done"
                /\ UNCHANGED current
    /\ UNCHANGED <<sections, page_index, call, segOnlyVars, chain, stack,
                   descendants, context, matches, contexts, pipeVars>>
    /\ UNCHANGED <<page_number, lines, line_index, lines_read, section_cursor,
                   buffer, current_kind, current_section_id, chunk_id,
                   chunk_result>>

FlushNext ==
    \/ FlushChunkCall
    \/ BuildSectionPathLoop

(***************************************************************************)
(* query/sections_query.py: the data excerpt of a section.  A page text is *)
(* the sequence of its lines (str.splitlines); every page has a text.      *)
(***************************************************************************)
MaxPageLines == 4
MaxDataLines == 2

(* _line_matches_title of sections_query.py                                *)
query_line_matches_title(line, title) ==
    LET normalized_line == _normalize_for_match(line)
        normalized_title == _normalize_for_match(title)
        all_tokens == Split(normalized_title)
        LongEnough(token) == Len(token) > TitleTokenMinLen
        tokens == SelectSeq(all_tokens, LongEnough)
    IN  IF normalized_line = <<>> \/ normalized_title = <<>> THEN FALSE
        ELSE IF Contains(normalized_line, normalized_title) THEN TRUE
        ELSE IF tokens = <<>> THEN FALSE
        ELSE \A i \in 1..Len(tokens) : Contains(normalized_line, tokens[i])

_is_numeric_data_line(line) ==
    LET digits == CountDigits(line)
        letters == CountLetters(line)
    IN  IF digits < NumericMinDigits THEN FALSE
        ELSE IF line # <<>> /\ IsDigit(line[1]) THEN TRUE
        ELSE letters <=
                 Max2(NumericMinLetterCap, digits \div NumericDigitsPerLetter)

(* [line.strip() for line in page_text.splitlines() if line.strip()]       *)
StrippedLines(raw) ==
    LET stripped == [i \in 1..Len(raw) |-> Strip(raw[i])]
        NonBlank(l) == l # <<>>
    IN  SelectSeq(stripped, NonBlank)

(* Mutant of DataRun: the first line that is not numeric ends the loop,    *)
(* also when nothing has been collected yet.                               *)
RECURSIVE DataRun_StopAtFirstOther(_, _, _)
DataRun_StopAtFirstOther(candidates, data_lines, max_lines) ==
    IF candidates = <<>> THEN data_lines
    ELSE IF _is_numeric_data_line(Head(candidates))
    THEN LET collected == Append(data_lines, Head(candidates))
         IN  IF Len(collected) >= max_lines THEN collected
             ELSE DataRun_StopAtFirstOther(Tail(candidates), collected,
                                           max_lines)
    ELSE data_lines

(* The inner loop of _extract_data_lines over lines[idx + 1:].             *)
RECURSIVE DataRun(_, _, _)
DataRun(candidates, data_lines, max_lines) ==
    IF candidates = <<>> THEN data_lines
    ELSE IF _is_numeric_data_line(Head(candidates))
    THEN LET collected == Append(data_lines, Head(candidates))
         IN  IF Len(collected) >= max_lines THEN collected
             ELSE DataRun(Tail(candidates), collected, max_lines)
    ELSE IF data_lines # <<>> THEN data_lines
    ELSE DataRun(Tail(candidates), data_lines, max_lines)

_extract_data_lines(page_text, title, max_lines) ==
    LET all_lines == StrippedLines(page_text)
        hits == {i \in 1..Len(all_lines) :
                    query_line_matches_title(all_lines[i], title)}
    IN  IF hits = {} THEN <<>>
        ELSE DataRun(SubSeq(all_lines, SetMin(hits) + 1, Len(all_lines)),
                     <<>>, max_lines)

(* The result is an option: empty for None.                                *)
build_section_data_context(section, pages, max_lines) ==
    LET found == {i \in 1..Len(pages) :
                     pages[i].page_number = section.page_number}
        page_text == pages[SetMin(found)].text
        data_lines == _extract_data_lines(page_text, section.title, max_lines)
    IN  IF ~IsStr(section.title) THEN <<>>
        ELSE IF found = {} THEN <<>>
        ELSE IF StrippedLines(page_text) = <<>> THEN <<>>
        ELSE IF data_lines = <<>> THEN <<>>
        ELSE <<[page_number |-> section.page_number, lines |-> data_lines]>>

(* Lines of a page: the title, prose, two numeric lines (one starting with *)
(* a digit, one with a letter) and a blank line.                           *)
DataPageLines ==
    { <<"R", "e", "v", "e", "n", "u", "e">>,
      <<"t", "e", "x", "t">>,
      <<" ", "1", "2">>,
      <<"Q", "1", " ", "7">>,
      <<" ">> }
DataPageTexts == SeqsUpTo(DataPageLines, MaxPageLines)
DataSections ==
    { Sec(1, TitleRevenue, 1, 1, None),
      Sec(1, None, 1, 1, None),
      Sec(1, TitleRevenue, 2, 1, None) }
DataCalls ==
    { [fn |-> "build_section_data_context", section |-> sec,
       pages |-> <<[page_number |-> 1, text |-> t]>>, max_lines |-> mx] :
        sec \in DataSections, t \in DataPageTexts,
        mx \in 0..MaxDataLines }

DataInit ==
    /\ call \in DataCalls
    /\ ret = <<>>
    /\ sections = <<>>
    /\ pc = "idle"
    /\ page_index = 0

CallBuildSectionDataContext ==
    /\ ret = <<>>
    /\ call.fn = "build_section_data_context"
    /\ ret' = <<build_section_data_context(call.section, call.pages,
                                           call.max_lines)>>
    /\ UNCHANGED <<call, segVars, chunkOnlyVars, queryOnlyVars, extraVars>>

DataNext ==
    \/ CallBuildSectionDataContext

(***************************************************************************)
(* segment/section_parser.py: the keywords file.  The file is the sequence *)
(* of its characters; kw_log logs the calls of update_keywords_file, each  *)
(* with the file before and after the call and the lists returned.         *)
(***************************************************************************)
MaxFileLines == 2
MaxCandidates == 2
MaxUpdateCalls == 2

StartsWith(s, prefix) ==
    Len(s) >= Len(prefix) /\ SubSeq(s, 1, Len(prefix)) = prefix

(* The lines of a text read line by line, without their line ends.         *)
FileLines(text) ==
    LET ends == {i \in 1..Len(text) : text[i] = "\n"} \cup {Len(text) + 1}
        starts == {1} \cup {i + 1 : i \in ends \ {Len(text) + 1}}
        IsStart(i) == i \in starts /\ i <= Len(text)
        first == SelectSeq(Indices(text), IsStart)
    IN  [k \in 1..Len(first) |->
            SubSeq(text, first[k],
                   SetMin({e \in ends : e >= first[k]}) - 1)]

(* line.split(":", 1)[1].strip(), for a line that holds a colon            *)
ValueAfterColon(line) ==
    LET colon == SetMin({i \in 1..Len(line) : line[i] = ":"})
    IN  Strip(SubSeq(line, colon + 1, Len(line)))

PrefixMainRegex == {<<"m", "a", "i", "n", "_", "r", "e", "g", "e", "x", ":">>,
                    <<"m", "a", "i", "n", "-", "r", "e", "g", "e", "x", ":">>}
PrefixSubRegex == {<<"s", "u", "b", "_", "r", "e", "g", "e", "x", ":">>,
                   <<"s", "u", "b", "-", "r", "e", "g", "e", "x", ":">>}
PrefixRegex == {<<"r", "e", "g", "e", "x", ":">>}
PrefixSub == {<<"s", "u", "b", ":">>,
              <<"s", "u", "b", "s", "e", "c", "t", "i", "o", "n", ":">>}
PrefixMain == {<<"m", "a", "i", "n", ":">>}
HasPrefix(lower, prefixes) == \E p \in prefixes : StartsWith(lower, p)

NoKeywords ==
    [main_keywords |-> <<>>, subsection_keywords |-> <<>>,
     main_regex |-> <<>>, subsection_regex |-> <<>>]

(* Mutant of LoadLine: a prefixed line is appended with an empty value     *)
(* too.                                                                    *)
LoadLine_EmptyValueKept(acc, raw_line) ==
    LET line == Strip(raw_line)
        lower == Lower(line)
        value == ValueAfterColon(line)
    IN  IF line = <<>> \/ StartsWith(line, <<"#">>) THEN acc
        ELSE IF HasPrefix(lower, PrefixMainRegex)
        THEN [acc EXCEPT !.main_regex = Append(@, value)]
        ELSE IF HasPrefix(lower, PrefixSubRegex)
        THEN [acc EXCEPT !.subsection_regex = Append(@, value)]
        ELSE IF HasPrefix(lower, PrefixRegex)
        THEN [acc EXCEPT !.main_regex = Append(@, value)]
        ELSE IF HasPrefix(lower, PrefixSub)
        THEN [acc EXCEPT !.subsection_keywords = Append(@, value)]
        ELSE IF HasPrefix(lower, PrefixMain)
        THEN [acc EXCEPT !.main_keywords = Append(@, value)]
        ELSE [acc EXCEPT !.main_keywords = Append(@, line)]

(* One turn of the loop of load_keywords_file over the lines of the file.  *)
LoadLine(acc, raw_line) ==
    LET line == Strip(raw_line)
        lower == Lower(line)
        value == ValueAfterColon(line)
    IN  IF line = <<>> \/ StartsWith(line, <<"#">>) THEN acc
        ELSE IF HasPrefix(lower, PrefixMainRegex)
        THEN IF value # <<>>
             THEN [acc EXCEPT !.main_regex = Append(@, value)] ELSE acc
        ELSE IF HasPrefix(lower, PrefixSubRegex)
        THEN IF value # <<>>
             THEN [acc EXCEPT !.subsection_regex = Append(@, value)] ELSE acc
        ELSE IF HasPrefix(lower, PrefixRegex)
        THEN IF value # <<>>
             THEN [acc EXCEPT !.main_regex = Append(@, value)] ELSE acc
        ELSE IF HasPrefix(lower, PrefixSub)
        THEN IF value # <<>>
             THEN [acc EXCEPT !.subsection_keywords = Append(@, value)]
             ELSE acc
        ELSE IF HasPrefix(lower, PrefixMain)
        THEN IF value # <<>>
             THEN [acc EXCEPT !.main_keywords = Append(@, value)] ELSE acc
        ELSE [acc EXCEPT !.main_keywords = Append(@, line)]

RECURSIVE LoadLines(_, _)
LoadLines(acc, raw_lines) ==
    IF raw_lines = <<>> THEN acc
    ELSE LoadLines(LoadLine(acc, Head(raw_lines)), Tail(raw_lines))

load_keywords_file(content) == LoadLines(NoKeywords, FileLines(content))

(* The characters of the model in code point order, for str.lower as sort  *)
(* key.                                                                    *)
CodeOrder ==
    <<"\t", "\n", " ", "#", "%", "-", ".">> \o DigitChars \o <<":">>
    \o UpperLetters \o <<"^", "_">> \o LowerLetters \o <<"É", "é">>
CodePoint(c) == IndexOf(CodeOrder, c)
RECURSIVE TextLess(_, _)
TextLess(a, b) ==
    IF b = <<>> THEN FALSE
    ELSE IF a = <<>> THEN TRUE
    ELSE IF Head(a) # Head(b) THEN CodePoint(Head(a)) < CodePoint(Head(b))
    ELSE TextLess(Tail(a), Tail(b))

(* sorted(values, key=str.lower): a stable insertion sort.                 *)
RECURSIVE InsertByLower(_, _)
InsertByLower(sorted, value) ==
    IF sorted = <<>> THEN <<value>>
    ELSE IF TextLess(Lower(value), Lower(Head(sorted)))
    THEN <<value>> \o sorted
    ELSE <<Head(sorted)>> \o InsertByLower(Tail(sorted), value)
RECURSIVE SortedByLower(_)
SortedByLower(values) ==
    IF values = <<>> THEN <<>>
    ELSE InsertByLower(SortedByLower(SubSeq(values, 1, Len(values) - 1)),
                       values[Len(values)])

(* Mutant of NewMain: the normalized text of an accepted candidate is not  *)
(* added to the set of known ones.                                         *)
RECURSIVE NewMain_NotRemembered(_, _, _)
NewMain_NotRemembered(candidates, known, new_main) ==
    IF candidates = <<>> THEN new_main
    ELSE LET normalized == _normalize(Head(candidates))
         IN  IF normalized \notin known
             THEN NewMain_NotRemembered(Tail(candidates), known,
                                        Append(new_main, Head(candidates)))
             ELSE NewMain_NotRemembered(Tail(candidates), known, new_main)

(* The loop of update_keywords_file over main_candidates; known is the     *)
(* union of existing_main_norm and existing_sub_norm, of which only the    *)
(* first grows.                                                            *)
RECURSIVE NewMain(_, _, _)
NewMain(candidates, known, new_main) ==
    IF candidates = <<>> THEN new_main
    ELSE LET normalized == _normalize(Head(candidates))
         IN  IF normalized \notin known
             THEN NewMain(Tail(candidates), known \cup {normalized},
                          Append(new_main, Head(candidates)))
             ELSE NewMain(Tail(candidates), known, new_main)

AutoHeader ==
    <<"\n", "#", " ", "A", "u", "t", "o", "-", "d", "i", "s", "c", "o",
      "v", "e", "r", "e", "d", " ", "k", "e", "y", "w", "o", "r", "d", "s",
      "\n">>
RECURSIVE MainEntries(_)
MainEntries(values) ==
    IF values = <<>> THEN <<>>
    ELSE <<"m", "a", "i", "n", ":", " ">> \o Head(values) \o <<"\n">>
         \o MainEntries(Tail(values))

(* update_keywords_file(path, main_candidates): the file after the call    *)
(* and the lists returned; there are no subsection candidates.             *)
update_keywords_file(content, main_candidates) ==
    LET existing == load_keywords_file(content)
        Norms(words) == {_normalize(words[i]) : i \in 1..Len(words)}
        new_main == NewMain(main_candidates,
                            Norms(existing.main_keywords)
                                \cup Norms(existing.subsection_keywords),
                            <<>>)
        written == IF new_main # <<>>
                   THEN content \o AutoHeader
                        \o MainEntries(SortedByLower(new_main))
                   ELSE content
    IN  [file |-> written, result |-> load_keywords_file(written)]

(* Lines of a keywords file: every prefix, in both spellings and in upper  *)
(* and lower case, a comment, a blank line, bare lines with and without a  *)
(* colon, and a prefix with no value.                                      *)
KwLines ==
    { <<"m", "a", "i", "n", ":", " ", "A", "b">>,
      <<"S", "U", "B", ":", " ", "c", "d">>,
      <<"r", "e", "g", "e", "x", ":", " ", "b">>,
      <<"m", "a", "i", "n", "-", "r", "e", "g", "e", "x", ":", " ", "b">>,
      <<"s", "u", "b", "_", "r", "e", "g", "e", "x", ":", " ", "c">>,
      <<"#", " ", "n">>,
      <<>>,
      <<"A", "b">>,
      <<"m", "a", "i", "n", ":">>,
      <<"s", "u", "b", "s", "e", "c", "t", "i", "o", "n", ":", " ", "x">>,
      <<"m", "a", "i", "n", "_", "r", "e", "g", "e", "x", ":", " ", "y">>,
      <<"s", "u", "b", "-", "r", "e", "g", "e", "x", ":", " ", "z">>,
      <<"A", "b", ":", " ", "c", "d">> }
RECURSIVE JoinLines(_)
JoinLines(ls) ==
    IF ls = <<>> THEN <<>> ELSE Head(ls) \o <<"\n">> \o JoinLines(Tail(ls))
KwFiles == {JoinLines(ls) : ls \in SeqsUpTo(KwLines, MaxFileLines)}

(* Files handed to update_keywords_file: empty, with a main keyword, with  *)
(* a subsection keyword and no line end at the end.                        *)
UpdateFiles ==
    { <<>>,
      <<"m", "a", "i", "n", ":", " ", "A", "b", "\n">>,
      <<"E", "f", "\n", "s", "u", "b", ":", " ", "c", "d">> }
CandidateTexts ==
    { <<"A", "b">>,
      <<"A", "B", " ">>,
      <<"c", "d">>,
      <<>>,
      <<"E", "f">>,
      <<" ">> }
CandidateLists == SeqsUpTo(CandidateTexts, MaxCandidates)

KwInit ==
    /\ \/ /\ call = [fn |-> "load_keywords_file"]
          /\ kw_file \in KwFiles
       \/ /\ call \in {[fn |-> "update_keywords_file", main_candidates |-> cs] :
                          cs \in CandidateLists}
          /\ kw_file \in UpdateFiles
    /\ kw_log = <<>>
    /\ ret = <<>>
    /\ pc = "call"
    /\ sections = <<>>
    /\ page_index = 0
    /\ path = <<>>
    /\ matches = <<>>
    /\ contexts = <<>>
    /\ outputs = {}
    /\ raised = ""
    /\ steps = <<>>

LoadKeywordsFileCall ==
    /\ pc = "call"
    /\ call.fn = "load_keywords_file"
    /\ ret' = <<load_keywords_file(kw_file)>>
    /\ pc' = "done"
    /\ UNCHANGED <<kw_file, kw_log>>
    /\ UNCHANGED <<sections, page_index, call, segOnlyVars, chunkOnlyVars,
                   queryOnlyVars, path, matches, contexts, outputs, raised,
                   steps>>

(* One call of update_keywords_file; the same call is made again, up to    *)
(* MaxUpdateCalls times.                                                   *)
UpdateKeywordsFileCall ==
    /\ pc = "call"
    /\ call.fn = "update_keywords_file"
    /\ LET updated == update_keywords_file(kw_file, call.main_candidates)
       IN  /\ kw_file' = updated.file
           /\ ret' = <<updated.result>>
           /\ kw_log' = Append(kw_log, [before |-> kw_file,
                                        after |-> updated.file,
                                        result |-> updated.result])
    /\ pc' = IF Len(kw_log) + 1 >= MaxUpdateCalls THEN "done" ELSE "call"
    /\ UNCHANGED <<sections, page_index, call, segOnlyVars, chunkOnlyVars,
                   queryOnlyVars, path, matches, contexts, outputs, raised,
                   steps>>

KwNext ==
    \/ LoadKeywordsFileCall
    \/ UpdateKeywordsFileCall

(***************************************************************************)
(* pipeline.py: run.  A run is followed stage by stage; outputs is the set *)
(* of the keys of the outputs dictionary, that is of the files written;    *)
(* raised is the exception the run ended with, steps the calls made, in    *)
(* order.  A keywords file, after the configuration has been merged in, is *)
(* None, the path of a file that exists or the path of none; sections_path *)
(* is None or the path of a file whose "sections" is a list or is not.     *)
(***************************************************************************)
RunCalls ==
    { [fn |-> "run", input_path |-> ip, raw_pages_path |-> rp,
       segment |-> sg, chunk |-> ck, generate_diagrams |-> gd,
       keywords_file |-> kf, update_keywords |-> uk, sections_path |-> sp] :
        ip \in {"None", "doc.pdf"}, rp \in {"None", "raw.json"},
        sg \in BOOLEAN, ck \in BOOLEAN, gd \in BOOLEAN,
        kf \in {"None", "missing", "present"}, uk \in BOOLEAN,
        sp \in {"None", "list", "nolist"} }

(* The keywords file of a run that finds one.                              *)
RunKeywordsFile == <<"m", "a", "i", "n", ":", " ", "A", "b", "\n">>
(* The candidates discover_heading_candidates finds in the pages.          *)
RunCandidates == << <<"E", "f">> >>

PipeInit ==
    /\ call \in RunCalls
    /\ pc = "start"
    /\ ret = <<>>
    /\ outputs = {}
    /\ raised = ""
    /\ steps = <<>>
    /\ kw_file = IF call.keywords_file = "present" THEN RunKeywordsFile
                 ELSE <<>>
    /\ kw_log = <<>>
    /\ sections = <<>>
    /\ page_index = 0
    /\ path = <<>>
    /\ matches = <<>>
    /\ contexts = <<>>

pipeOtherVars ==
    <<sections, page_index, call, segOnlyVars, chunkOnlyVars, queryOnlyVars,
      path, matches, contexts, kw_log>>

(* raise: the run ends with the exception.                                 *)
Raise(exception) ==
    /\ raised' = exception
    /\ pc' = "raised"

(* The raw pages are loaded, or the document is ingested first.            *)
PipeLoadPages ==
    /\ pc = "start"
    /\ IF call.raw_pages_path # "None"
       THEN /\ steps' = Append(steps, "load_raw_pages")
            /\ pc' = "segment"
            /\ UNCHANGED <<outputs, raised>>
       ELSE IF call.input_path = "None"
       THEN /\ Raise("ValueError")
            /\ UNCHANGED <<outputs, steps>>
       ELSE /\ steps' = steps \o <<"ingest_pdf", "load_raw_pages">>
            /\ outputs' = outputs \cup {"raw_pages"}
            /\ pc' = "segment"
            /\ UNCHANGED raised
    /\ UNCHANGED <<ret, kw_file, pipeOtherVars>>

(* Mutant of KeywordsError: a keywords file that does not exist is no      *)
(* error.                                                                  *)
KeywordsError_MissingIgnored(keywords_file, update_keywords) ==
    IF update_keywords /\ keywords_file = "None" THEN "ValueError"
    ELSE ""

(* The two checks made before any keyword is read: the exception, or "".   *)
KeywordsError(keywords_file, update_keywords) ==
    IF update_keywords /\ keywords_file = "None" THEN "ValueError"
    ELSE IF keywords_file # "None" /\ keywords_file # "present"
    THEN "FileNotFoundError"
    ELSE ""

PipeKeywordsCheck ==
    /\ pc = "segment"
    /\ IF ~call.segment
       THEN /\ pc' = "chunk"
            /\ UNCHANGED raised
       ELSE LET error == KeywordsError(call.keywords_file,
                                       call.update_keywords)
            IN  IF error # "" THEN Raise(error)
                ELSE /\ pc' = IF call.keywords_file = "None"
                              THEN "segment_sections"
                              ELSE IF call.update_keywords THEN "discover"
                              ELSE "load_keywords"
                     /\ UNCHANGED raised
    /\ UNCHANGED <<ret, outputs, steps, kw_file, pipeOtherVars>>

PipeDiscover ==
    /\ pc = "discover"
    /\ steps' = Append(steps, "discover_heading_candidates")
    /\ pc' = "update_keywords"
    /\ UNCHANGED <<ret, outputs, raised, kw_file, pipeOtherVars>>

(* The parameters of update_keywords_file and the keyword arguments run    *)
(* passes to it, next to the positional path.                              *)
UpdateKeywordsParameters ==
    {"path", "main_candidates", "subsection_candidates"}
UpdateKeywordsArguments == {"main_candidates", "auto_classify_subsections"}

(* A call binds when every keyword argument names a parameter; otherwise   *)
(* it raises TypeError before the function body runs.                      *)
PipeUpdateKeywords ==
    /\ pc = "update_keywords"
    /\ IF UpdateKeywordsArguments \subseteq UpdateKeywordsParameters
       THEN /\ kw_file' = update_keywords_file(kw_file, RunCandidates).file
            /\ steps' = Append(steps, "update_keywords_file")
            /\ pc' = "segment_with_keywords"
            /\ UNCHANGED raised
       ELSE /\ Raise("TypeError")
            /\ UNCHANGED <<kw_file, steps>>
    /\ UNCHANGED <<ret, outputs, pipeOtherVars>>

PipeLoadKeywords ==
    /\ pc = "load_keywords"
    /\ steps' = Append(steps, "load_keywords_file")
    /\ pc' = "segment_with_keywords"
    /\ UNCHANGED <<ret, outputs, raised, kw_file, pipeOtherVars>>

(* Segmentation, the sections output and the two diagrams.                 *)
PipeSegment ==
    /\ pc \in {"segment_with_keywords", "segment_sections"}
    /\ steps' = Append(steps, pc)
    /\ outputs' = outputs \cup {"sections"}
                    \cup IF call.generate_diagrams
                         THEN {"sections_tree", "sections_related"} ELSE {}
    /\ pc' = "chunk"
    /\ UNCHANGED <<ret, raised, kw_file, pipeOtherVars>>

(* The chunk stage and the return of outputs.                              *)
PipeChunk ==
    /\ pc = "chunk"
    /\ IF ~call.chunk
       THEN /\ pc' = "done"
            /\ ret' = <<outputs>>
            /\ UNCHANGED <<outputs, raised, steps>>
       ELSE IF ~call.segment /\ call.sections_path = "None"
       THEN /\ Raise("ValueError")
            /\ UNCHANGED <<ret, outputs, steps>>
       ELSE IF ~call.segment /\ call.sections_path = "nolist"
       THEN /\ Raise("ValueError")
            /\ steps' = Append(steps, "load_sections")
            /\ UNCHANGED <<ret, outputs>>
       ELSE /\ steps' = steps
                  \o (IF call.segment THEN <<>> ELSE <<"load_sections">>)
                  \o <<"chunk_sections">>
            /\ outputs' = outputs \cup {"chunks"}
            /\ ret' = <<outputs'>>
            /\ pc' = "done"
            /\ UNCHANGED raised
    /\ UNCHANGED <<kw_file, pipeOtherVars>>

PipeNext ==
    \/ PipeLoadPages
    \/ PipeKeywordsCheck
    \/ PipeDiscover
    \/ PipeUpdateKeywords
    \/ PipeLoadKeywords
    \/ PipeSegment
    \/ PipeChunk

(***************************************************************************)
(* segment/section_parser.py: build_sections_tree_diagram.  The diagram is *)
(* the sequence of its lines between the two fences; a line is the header, *)
(* a node `a["b"]` or an edge `a --> b`.  Every section has a string id    *)
(* and an integer page_number.                                             *)
(***************************************************************************)
DiagramHeader == [kind |-> "flowchart TD", a |-> <<>>, b |-> <<>>]
NodeLine(id, label) == [kind |-> "node", a |-> id, b |-> label]
EdgeLine(from, to) == [kind |-> "edge", a |-> from, b |-> to]

(* label.replace('"', "'")                                                 *)
_escape_label(label) ==
    [i \in 1..Len(label) |-> IF label[i] = "\"" THEN "'" ELSE label[i]]

DocId == <<"d", "o", "c">>
PageNodeId(n) == <<"p", "a", "g", "e", "_">> \o DecDigits(n)
PageLabel(n) == <<"P", "a", "g", "e", " ">> \o DecDigits(n)

(* sorted(page_map): the page numbers of the sections, ascending.          *)
RECURSIVE SortedSet(_)
SortedSet(S) ==
    IF S = {} THEN <<>>
    ELSE <<SetMin(S)>> \o SortedSet(S \ {SetMin(S)})

(* section_map: the truthy ids of the list.                                *)
SectionMapKeys(secs) ==
    {secs[i].id : i \in {j \in 1..Len(secs) : Truthy(secs[j].id)}}

(* Mutant of SectionLines: the edge comes from parent_id whenever there is *)
(* one, in the list or not.                                                *)
SectionLines_ParentNotLookedUp(section, secs) ==
    LET id == IF Truthy(section.id) THEN section.id
              ELSE <<"s", "e", "c", "_">> \o DecDigits(section.page_number)
        title == IF Truthy(section.title) THEN section.title ELSE id
    IN  <<NodeLine(id, _escape_label(title)),
          IF Truthy(section.parent_id)
          THEN EdgeLine(section.parent_id, id)
          ELSE EdgeLine(PageNodeId(section.page_number), id)>>

(* The two lines of a section: its node and the edge to it.                *)
SectionLines(section, secs) ==
    LET id == IF Truthy(section.id) THEN section.id
              ELSE <<"s", "e", "c", "_">> \o DecDigits(section.page_number)
        title == IF Truthy(section.title) THEN section.title ELSE id
    IN  <<NodeLine(id, _escape_label(title)),
          IF Truthy(section.parent_id)
             /\ section.parent_id \in SectionMapKeys(secs)
          THEN EdgeLine(section.parent_id, id)
          ELSE EdgeLine(PageNodeId(section.page_number), id)>>

RECURSIVE SectionsLines(_, _)
SectionsLines(on_page, secs) ==
    IF on_page = <<>> THEN <<>>
    ELSE SectionLines(Head(on_page), secs) \o SectionsLines(Tail(on_page), secs)

(* The lines of a page: its node, the edge from the document, and the      *)
(* lines of its sections in list order.                                    *)
PageLines(pn, secs) ==
    <<NodeLine(PageNodeId(pn), PageLabel(pn)),
      EdgeLine(DocId, PageNodeId(pn))>>
    \o SectionsLines(SectionsOnPage(secs, pn), secs)

RECURSIVE PagesLines(_, _)
PagesLines(page_numbers, secs) ==
    IF page_numbers = <<>> THEN <<>>
    ELSE PageLines(Head(page_numbers), secs)
         \o PagesLines(Tail(page_numbers), secs)

build_sections_tree_diagram(source_file, secs) ==
    <<DiagramHeader, NodeLine(DocId, _escape_label(source_file))>>
    \o PagesLines(SortedSet({secs[i].page_number : i \in 1..Len(secs)}),
                  secs)

(* The section lists a diagram is drawn of: section k has the id sec_00k,  *)
(* any page, and as parent_id None, the id of the first section (its own   *)
(* for that one) or an id no section carries.                              *)
DiagramParentIds == {None, UnknownId, SecId(1)}
DiagramSectionLists ==
    UNION { { [k \in 1..n |-> Sec(k, TitleRevenue, pns[k], 1, ps[k])] :
                ps \in [1..n -> DiagramParentIds],
                pns \in [1..n -> 1..MaxPages] } :
            n \in 0..MaxSections }
DiagramSource ==
    <<"a", " ", "\"", "b", "\"", ".", "p", "d", "f">>

DiagramInit ==
    /\ sections \in DiagramSectionLists
    /\ call = [fn |-> "build_sections_tree_diagram",
               source_file |-> DiagramSource]
    /\ ret = <<>>
    /\ pc = "call"
    /\ page_index = 0

CallBuildSectionsTreeDiagram ==
    /\ pc = "call"
    /\ call.fn = "build_sections_tree_diagram"
    /\ ret' = <<build_sections_tree_diagram(call.source_file, sections)>>
    /\ pc' = "done"
    /\ UNCHANGED <<sections, page_index, call, segOnlyVars, chunkOnlyVars,
                   queryOnlyVars, extraVars>>

DiagramNext ==
    \/ CallBuildSectionsTreeDiagram

(***************************************************************************)
(* Specifications.                                                         *)
(***************************************************************************)
(* A run of segment_sections_with_keywords.                                *)
Init == SegInit /\ ChunkIdle /\ ClsIdle /\ QueryIdle /\ ExtraIdle
Next == SegNext
Spec == Init /\ [][Next]_vars

(* One call of a classifier.                                               *)
InitClassify ==
    /\ ClsInit
    /\ SegIdle
    /\ ChunkIdle
    /\ QueryIdle
    /\ ExtraIdle
    /\ sections = <<>>
    /\ pc = "idle"
    /\ page_index = 0
NextClassify == ClsNext
SpecClassify == InitClassify /\ [][NextClassify]_vars

(* A run of chunk_sections.                                                *)
InitChunk ==
    ChunkInit /\ SegIdle /\ ClsIdle /\ QueryIdle /\ ExtraIdle
NextChunk == ChunkNext
SpecChunk == InitChunk /\ [][NextChunk]_vars

(* One call of a query function.                                           *)
InitQuery == QueryInit /\ SegIdle /\ ChunkIdle /\ ExtraIdle
NextQuery == QueryNext
SpecQuery == InitQuery /\ [][NextQuery]_vars

(* One call of _flush_chunk.                                               *)
InitFlush == FlushInit /\ SegIdle
NextFlush == FlushNext
SpecFlush == InitFlush /\ [][NextFlush]_vars

(* One call of build_section_data_context.                                 *)
InitData == DataInit /\ SegIdle /\ ChunkIdle /\ QueryIdle /\ ExtraIdle
NextData == DataNext
SpecData == InitData /\ [][NextData]_vars

(* One call of load_keywords_file, or repeated calls of                    *)
(* update_keywords_file.                                                   *)
InitKeywords == KwInit /\ SegIdle /\ ChunkIdle /\ QueryIdle
NextKeywords == KwNext
SpecKeywords == InitKeywords /\ [][NextKeywords]_vars

(* A run of the pipeline.                                                  *)
InitPipeline == PipeInit /\ SegIdle /\ ChunkIdle /\ QueryIdle
NextPipeline == PipeNext
SpecPipeline == InitPipeline /\ [][NextPipeline]_vars

(* One call of build_sections_tree_diagram.                                *)
InitDiagram ==
    DiagramInit /\ SegIdle /\ ChunkIdle /\ QueryIdle /\ ExtraIdle
NextDiagram == DiagramNext
SpecDiagram == InitDiagram /\ [][NextDiagram]_vars

(***************************************************************************)
(* Properties of the hierarchy builder (specification Spec).               *)
(***************************************************************************)
Appended == Len(sections') = Len(sections) + 1
NewSection == sections'[Len(sections')]
SectionIndex(id) == CHOOSE j \in 1..Len(sections) : sections[j].id = id
HasSection(id) == \E j \in 1..Len(sections) : sections[j].id = id

C1_Step ==
    (Appended /\ _is_numeric_like(NewSection.title)) =>
        IF current_subsection_id # None
        THEN NewSection.level = 3 /\ NewSection.parent_id = current_subsection_id
        ELSE IF current_parent_id # None
        THEN NewSection.level = 2 /\ NewSection.parent_id = current_parent_id
        ELSE NewSection.level = 1 /\ NewSection.parent_id = None

(* C1: a numeric-like heading gets level 3 under the open subsection if    *)
(* there is one, else level 2 under the open main heading if there is one, *)
(* else level 1 and no parent.                                             *)
C1_NumericLikeAttach == [][C1_Step]_vars

(* A numeric-like heading of each of the three kinds exists.               *)
C1_Witness ==
    /\ \E k \in 1..Len(sections) :
          /\ _is_numeric_like(sections[k].title)
          /\ sections[k].level = 3
    /\ \E k \in 1..Len(sections) :
          /\ _is_numeric_like(sections[k].title)
          /\ sections[k].level = 1

C2_Step ==
    (/\ Appended
     /\ ~_is_numeric_like(NewSection.title)
     /\ IsSubsectionMatch(NewSection.title)) =>
        /\ NewSection.level = 2
        /\ NewSection.parent_id = current_parent_id
        /\ current_subsection_id' = NewSection.id
        /\ current_parent_id' = current_parent_id

(* C2: a heading that is not numeric-like and matches a subsection keyword *)
(* or subsection pattern gets level 2 under the open main heading (no      *)
(* parent if none is open), becomes the open subsection and leaves the     *)
(* open main heading as it was.                                            *)
C2_SubsectionAttach == [][C2_Step]_vars

(* A subsection heading under an open main heading, and one with none.     *)
C2_Witness ==
    /\ \E k \in 1..Len(sections) :
          /\ ~_is_numeric_like(sections[k].title)
          /\ IsSubsectionMatch(sections[k].title)
          /\ sections[k].parent_id # None
    /\ \E k \in 1..Len(sections) :
          /\ ~_is_numeric_like(sections[k].title)
          /\ IsSubsectionMatch(sections[k].title)
          /\ sections[k].parent_id = None
    /\ current_subsection_id # None

C3_Step ==
    (/\ Appended
     /\ ~_is_numeric_like(NewSection.title)
     /\ ~IsSubsectionMatch(NewSection.title)) =>
        /\ NewSection.level = 1
        /\ NewSection.parent_id = None
        /\ current_parent_id' = NewSection.id
        /\ current_subsection_id' = None

(* An open subsection was opened after the open main heading.              *)
C3_OpenOrder ==
    (current_subsection_id # None /\ current_parent_id # None) =>
        /\ HasSection(current_subsection_id)
        /\ HasSection(current_parent_id)
        /\ SectionIndex(current_parent_id) < SectionIndex(current_subsection_id)

(* C3: a heading that is neither numeric-like nor a subsection match gets  *)
(* level 1 and no parent, becomes the open main heading and closes the     *)
(* open subsection, so no subsection opened before it stays open.          *)
C3_MainAttach == [][C3_Step]_vars /\ []C3_OpenOrder

(* A main heading follows a subsection on a page, and a numeric-like       *)
(* heading after it attaches to the main heading.                          *)
C3_Witness ==
    /\ Len(sections) = 3
    /\ IsSubsectionMatch(sections[1].title)
    /\ ~_is_numeric_like(sections[1].title)
    /\ sections[2].level = 1
    /\ ~_is_numeric_like(sections[2].title)
    /\ sections[2].page_number = sections[1].page_number
    /\ _is_numeric_like(sections[3].title)
    /\ sections[3].parent_id = sections[2].id

(* C4: hierarchy never spans pages: a parent is a section of the same      *)
(* page, the first heading of a page has no parent, and an open heading id *)
(* names a section of the page being processed.                            *)
C4_HierarchyWithinPage ==
    /\ \A k \in 1..Len(sections) :
          sections[k].parent_id # None =>
              \E j \in 1..(k - 1) :
                  /\ sections[j].id = sections[k].parent_id
                  /\ sections[j].page_number = sections[k].page_number
    /\ \A k \in 1..Len(sections) :
          (k = 1 \/ sections[k - 1].page_number # sections[k].page_number)
              => sections[k].parent_id = None
    /\ \A open \in {current_parent_id, current_subsection_id} :
          open # None =>
              \E j \in 1..Len(sections) :
                  /\ sections[j].id = open
                  /\ sections[j].page_number = page_index

(* A page ends with a main heading open and the next page starts with a    *)
(* numeric-like heading, which gets no parent.                             *)
C4_Witness ==
    \E k \in 2..Len(sections) :
        /\ sections[k - 1].page_number = 1
        /\ sections[k - 1].level = 1
        /\ ~_is_numeric_like(sections[k - 1].title)
        /\ sections[k].page_number = 2
        /\ _is_numeric_like(sections[k].title)
        /\ sections[k].parent_id = None

IdPrefix(id) == SubSeq(id, 1, 4)
IdNumber(id) == ParseInt(SubSeq(id, 5, Len(id)))

(* C5: the k-th section has id sec_k with k zero-padded to three digits,   *)
(* the ids are pairwise distinct, and section_count is the number of the   *)
(* last id.                                                                *)
C5_GlobalIds ==
    /\ \A k \in 1..Len(sections) :
          /\ IdPrefix(sections[k].id) = <<"s", "e", "c", "_">>
          /\ Len(sections[k].id) = 7
          /\ IdNumber(sections[k].id) = k
    /\ \A j, k \in 1..Len(sections) :
          j # k => sections[j].id # sections[k].id
    /\ pc = "done" =>
          /\ segment_result.sections = sections
          /\ segment_result.section_count =
                IF sections = <<>> THEN 0
                ELSE IdNumber(sections[Len(sections)].id)

(* A finished run with sections on two pages.                              *)
C5_Witness ==
    /\ pc = "done"
    /\ Len(sections) = 3
    /\ sections[1].page_number = 1
    /\ sections[2].page_number = 2
    /\ sections[3].id = <<"s", "e", "c", "_", "0", "0", "3">>

(* C6: a parent_id is null or the id of a section strictly earlier in the  *)
(* list, never the section's own id.                                       *)
C6_NoForwardReference ==
    \A k \in 1..Len(sections) :
        \/ sections[k].parent_id = None
        \/ /\ sections[k].parent_id # sections[k].id
           /\ \E j \in 1..(k - 1) : sections[j].id = sections[k].parent_id

(* A chain of three: main heading, subsection under it, numeric-like       *)
(* heading under the subsection.                                           *)
C6_Witness ==
    /\ Len(sections) = 3
    /\ sections[2].parent_id = sections[1].id
    /\ sections[3].parent_id = sections[2].id


(***************************************************************************)
(* Properties of the classifiers (specification SpecClassify).             *)
(***************************************************************************)
Returned(fn) == call.fn = fn /\ ret # <<>>

(* The strict predicate as the specification words it.                     *)
StrictAsStated(text) ==
    \/ FullMatchNumeric(text)
    \/ /\ CountDigits(text) >= 2
       /\ CountLetters(text) <= Max2(2, CountDigits(text) \div 3)

(* C7 as stated: the numeric-like predicate of the hierarchy builder is    *)
(* true exactly when the text is made of digits, '%', '.', ',' and        *)
(* whitespace only, or has at least 2 digits and at most max(2, digits/3)  *)
(* letters.                                                                *)
C7_AsStated ==
    Returned("_is_numeric_like") => (ret[1] <=> StrictAsStated(call.text))

(* C7, amended: the numeric-like predicate of the hierarchy builder is     *)
(* true exactly when the text is made of digits, '%', '.', ',' and        *)
(* whitespace only, or has at least 1 digit and at most 2 letters.         *)
C7_BuilderNumericLike ==
    Returned("_is_numeric_like") =>
        (ret[1] <=>
            \/ FullMatchNumeric(call.text)
            \/ CountDigits(call.text) >= 1 /\ CountLetters(call.text) <= 2)

(* One digit with two letters is numeric-like for the hierarchy builder.   *)
C7_Witness ==
    /\ Returned("_is_numeric_like")
    /\ CountDigits(call.text) = 1
    /\ CountLetters(call.text) = 2
    /\ ret[1] = TRUE

(* The loose predicate as the specification words it.                      *)
LooseAsStated(text) ==
    \/ FullMatchNumeric(text)
    \/ CountDigits(text) >= 6
    \/ CountChar(text, "%") >= 1 /\ CountDigits(text) >= 2

(* C8 as stated: a line is a table line exactly when it is made of digits, *)
(* '%', '.', ',' and whitespace only, or has at least 6 digits, or has a   *)
(* '%' and at least 2 digits.                                              *)
C8_AsStated ==
    Returned("_is_table_line") => (ret[1] <=> LooseAsStated(call.text))

(* C8, amended: a line is a table line exactly when one of the three       *)
(* stated conditions holds or it has at least 2 digits and at most         *)
(* max(2, digits/3) letters.                                               *)
C8_TableLine ==
    Returned("_is_table_line") =>
        (ret[1] <=>
            \/ LooseAsStated(call.text)
            \/ /\ CountDigits(call.text) >= 2
               /\ CountLetters(call.text)
                     <= Max2(2, CountDigits(call.text) \div 3))

(* Two digits and two letters, no '%': a table line.                       *)
C8_Witness ==
    /\ Returned("_is_table_line")
    /\ CountDigits(call.text) = 2
    /\ CountLetters(call.text) = 2
    /\ CountChar(call.text, "%") = 0
    /\ ret[1] = TRUE

(* Entirely upper-case: a letter, and no lower-case letter.                *)
AllUpperCase(text) ==
    /\ \E i \in 1..Len(text) : IsAlpha(text[i])
    /\ \A i \in 1..Len(text) : IsAlpha(text[i]) => IsUpperChar(text[i])

(* C9: _is_heading_candidate is true exactly when the trimmed text has at  *)
(* least 3 characters and its normalized form is a keyword, or it matches  *)
(* a pattern, or it is entirely upper-case and at most 120 characters      *)
(* long, or avg_size is present and at least median_size + 2; with the     *)
(* three example calls of the specification giving true, false and true.   *)
C9_HeadingRules ==
    /\ Returned("_is_heading_candidate") =>
          LET clean == Strip(call.text)
          IN  ret[1] <=>
                /\ Len(clean) >= 3
                /\ \/ _normalize(clean) \in call.keyword_set
                   \/ _matches_patterns(clean, call.keyword_patterns)
                   \/ AllUpperCase(clean) /\ Len(clean) <= 120
                   \/ /\ call.size # <<>>
                      /\ call.size[1] >= call.median_size + 2
    /\ (call = ExampleAllCaps /\ ret # <<>>) => ret[1] = TRUE
    /\ (call = ExampleSmallFont /\ ret # <<>>) => ret[1] = FALSE
    /\ (call = ExampleLargeFont /\ ret # <<>>) => ret[1] = TRUE

(* A lower-case text that is no keyword and matches no pattern is a        *)
(* heading by its font size alone, at exactly median + 2.                  *)
C9_Witness ==
    /\ Returned("_is_heading_candidate")
    /\ ret[1] = TRUE
    /\ ~AllUpperCase(Strip(call.text))
    /\ call.keyword_set = {}
    /\ call.keyword_patterns = <<>>
    /\ call.size = <<12>>
    /\ call.median_size = 10


(***************************************************************************)
(* Properties of the chunker (specification SpecChunk).                    *)
(***************************************************************************)
(* text.split("\n")                                                        *)
RECURSIVE SplitLines(_)
SplitLines(text) ==
    LET breaks == {i \in 1..Len(text) : text[i] = "\n"}
    IN  IF breaks = {} THEN <<text>>
        ELSE <<SubSeq(text, 1, SetMin(breaks) - 1)>>
                \o SplitLines(SubSeq(text, SetMin(breaks) + 1, Len(text)))

KindOf(line) == IF _is_table_line(line) THEN "table" ELSE "paragraph"

(* The chunks of the page being processed.                                 *)
PageChunks ==
    LET OfPage(c) == c.page_number = page_number[1]
    IN  SelectSeq(chunks, OfPage)

(* The page just finished had four lines: the heading of its first         *)
(* expected section, a table line, a paragraph line and a table line,      *)
(* none of the three matching a section title of the page.                 *)
HeadingTableParagraphTable ==
    /\ pc \in {"pages", "done"}
    /\ page_number # <<>>
    /\ Len(lines) = 4
    /\ line_index = 4
    /\ LET on_page == SectionsOnPage(sections, page_number[1])
       IN  /\ on_page # <<>>
           /\ _line_matches_title(lines[1], on_page[1].title)
           /\ \A i \in 2..4 : \A j \in 1..Len(on_page) :
                 ~_line_matches_title(lines[i], on_page[j].title)
    /\ KindOf(lines[2]) = "table"
    /\ KindOf(lines[3]) = "paragraph"
    /\ KindOf(lines[4]) = "table"

(* C10: every line of a chunk, and of the buffer, has the chunk's (the     *)
(* current) kind; two chunks in a row of one section and page differ in    *)
(* kind; and a page of a heading, a table line, a paragraph line and a     *)
(* table line yields exactly three one-line chunks, in that order, of      *)
(* kinds table, paragraph, table.                                          *)
C10_RunsOfEqualKind ==
    /\ \A k \in 1..Len(chunks) :
          LET ls == SplitLines(chunks[k].text)
          IN  /\ Len(ls) = chunks[k].line_count
              /\ \A i \in 1..Len(ls) : KindOf(ls[i]) = chunks[k].kind
    /\ pc = "lines" =>
          \A i \in 1..Len(buffer) : KindOf(buffer[i]) = current_kind
    /\ \A k \in 1..(Len(chunks) - 1) :
          (/\ chunks[k].page_number = chunks[k + 1].page_number
           /\ chunks[k].section_id = chunks[k + 1].section_id)
              => chunks[k].kind # chunks[k + 1].kind
    /\ HeadingTableParagraphTable =>
          /\ Len(PageChunks) = 3
          /\ \A i \in 1..3 :
                /\ PageChunks[i].text = lines[i + 1]
                /\ PageChunks[i].line_count = 1
          /\ PageChunks[1].kind = "table"
          /\ PageChunks[2].kind = "paragraph"
          /\ PageChunks[3].kind = "table"

(* The page of the example has been chunked.                               *)
C10_Witness ==
    /\ HeadingTableParagraphTable
    /\ Len(PageChunks) = 3

(* A step of the chunker appended one chunk, the others staying as they    *)
(* were.                                                                   *)
ChunkAppended ==
    /\ Len(chunks') = Len(chunks) + 1
    /\ SubSeq(chunks', 1, Len(chunks)) = chunks
NewChunk == chunks'[Len(chunks')]
NewLine == <<"\n">>

C11_NonEmpty ==
    \A k \in 1..Len(chunks) :
       LET ls == SplitLines(chunks[k].text)
       IN  /\ chunks[k].text # <<>>
           /\ chunks[k].line_count >= 1
           /\ chunks[k].line_count = Len(ls)
           /\ \A i \in 1..Len(ls) : Strip(ls[i]) # <<>>

C11_Step ==
    /\ chunks' = chunks \/ ChunkAppended
    /\ ChunkAppended =>
          /\ buffer # <<>>
          /\ \A i \in 1..Len(buffer) : Strip(buffer[i]) # <<>>
          /\ NewChunk.text = Join(buffer, NewLine)
          /\ NewChunk.line_count = Len(buffer)

(* C11: no chunk has empty text or line_count 0; a step appends a chunk    *)
(* only from a buffer of at least one line, none of them blank, and the    *)
(* chunk's line_count is the number of lines joined into its text.         *)
C11_NoEmptyChunk == []C11_NonEmpty /\ [][C11_Step]_vars

(* A heading was matched while the buffer was empty (the counter moved,    *)
(* no chunk was appended), and a chunk of two lines was emitted.           *)
C11_Witness ==
    /\ chunk_id > Len(chunks)
    /\ \E k \in 1..Len(chunks) : chunks[k].line_count = 2

(* The line about to be processed matches the title of the next expected   *)
(* section of its page.                                                    *)
AtLine == pc = "lines" /\ line_index < Len(lines)
CurrentLine == lines[line_index + 1]
ExpectedSections == SectionsOnPage(sections, page_number[1])
MatchesExpected ==
    /\ AtLine
    /\ section_cursor < Len(ExpectedSections)
    /\ IsStr(ExpectedSections[section_cursor + 1].title)
    /\ _line_matches_title(CurrentLine,
                           ExpectedSections[section_cursor + 1].title)
LineStep == AtLine /\ line_index' = line_index + 1

C12_Nothing ==
    current_section_id = None =>
        /\ chunks = <<>>
        /\ chunk_id = 0
        /\ pc = "lines" => buffer = <<>>

C12_Step ==
    (LineStep /\ current_section_id = None /\ ~MatchesExpected) =>
        /\ UNCHANGED <<chunks, chunk_id, buffer, current_kind>>
        /\ current_section_id' = None

(* C12: while no heading has been matched (current_section_id is None) a   *)
(* line that is no heading changes neither the chunks nor the buffer, and  *)
(* up to the first match there is no chunk and nothing buffered.           *)
C12_DiscardBeforeFirstSection == []C12_Nothing /\ [][C12_Step]_vars

(* On the first page a line that is no heading came first, the heading     *)
(* after it was matched, and the one chunk emitted so far holds another    *)
(* text than that first line.                                              *)
C12_Witness ==
    /\ pc = "lines"
    /\ page_index = 1
    /\ ExpectedSections # <<>>
    /\ ~_line_matches_title(lines[1], ExpectedSections[1].title)
    /\ section_cursor >= 1
    /\ Len(chunks) = 1
    /\ chunks[1].text # lines[1]

C13_Step ==
    (LineStep /\ MatchesExpected) =>
        /\ buffer' = <<>>
        /\ current_kind' = "paragraph"
        /\ current_section_id' = ExpectedSections[section_cursor + 1].id
        /\ IF buffer # <<>>
           THEN /\ ChunkAppended
                /\ NewChunk.section_id = current_section_id
                /\ NewChunk.kind = current_kind
                /\ NewChunk.text = Join(buffer, NewLine)
           ELSE chunks' = chunks

(* C13: on a line matching the next expected heading, a non-empty buffer   *)
(* becomes one chunk with the section id and kind held before the match    *)
(* and with the buffered lines as text (the matched line is not among      *)
(* them), an empty buffer yields no chunk, and afterwards the buffer is    *)
(* empty, current_section_id is the matched section's id and current_kind  *)
(* is "paragraph".                                                         *)
C13_HeadingMatch == [][C13_Step]_vars

(* The line just processed was the heading of the section now open, and    *)
(* the last chunk, of this page, was flushed under the section before it   *)
(* as a table.                                                             *)
C13_Witness ==
    /\ pc = "lines"
    /\ line_index >= 1
    /\ section_cursor >= 1
    /\ buffer = <<>>
    /\ current_kind = "paragraph"
    /\ current_section_id = ExpectedSections[section_cursor].id
    /\ _line_matches_title(lines[line_index],
                           ExpectedSections[section_cursor].title)
    /\ chunks # <<>>
    /\ chunks[Len(chunks)].page_number = page_number[1]
    /\ chunks[Len(chunks)].section_id # current_section_id
    /\ chunks[Len(chunks)].kind = "table"
    /\ chunks[Len(chunks)].text = lines[line_index - 1]

C14_BufferOfPage ==
    pc = "lines" =>
        /\ Len(buffer) <= line_index
        /\ buffer = SubSeq(lines, line_index - Len(buffer) + 1, line_index)
        /\ buffer # <<>> => Truthy(current_section_id)

C14_Step ==
    /\ ChunkAppended =>
          /\ pc = "lines"
          /\ NewChunk.page_number = page_number[1]
          /\ NewChunk.section_id = current_section_id
          /\ NewChunk.text = Join(buffer, NewLine)
    /\ pc = "pages" =>
          /\ current_section_id' = current_section_id
          /\ pc' = "lines" => buffer' = <<>>

(* C14: going from one page to the next keeps current_section_id and       *)
(* starts with an empty buffer; the buffer is always a run of lines of the *)
(* page being processed, ending at the line last read; and a chunk is      *)
(* emitted only while a page is processed, with that page's number, the    *)
(* open section's id and the buffer as its text.                           *)
C14_SectionPersistsAcrossPages == []C14_BufferOfPage /\ [][C14_Step]_vars

(* A chunk of page 2, a page with no section of its own, belongs to a      *)
(* section of page 1, and page 1 gave a chunk as well.                     *)
C14_Witness ==
    /\ SectionsOnPage(sections, 2) = <<>>
    /\ \E k \in 1..Len(chunks) :
          /\ chunks[k].page_number = 2
          /\ \E j \in 1..Len(sections) :
                /\ sections[j].id = chunks[k].section_id
                /\ sections[j].page_number = 1
    /\ \E k \in 1..Len(chunks) : chunks[k].page_number = 1

ChunkIdPrefix(id) == SubSeq(id, 1, 6)
ChunkIdNumber(id) == ParseInt(SubSeq(id, 7, Len(id)))

(* C15: the numbers of the chunk ids strictly increase along the chunk     *)
(* list, the ids are pairwise distinct, and every chunk's section_id is    *)
(* the id of a section of the list handed in.                              *)
C15_MonotonicIds ==
    /\ \A k \in 1..Len(chunks) :
          /\ ChunkIdPrefix(chunks[k].id) = <<"c", "h", "u", "n", "k", "_">>
          /\ ChunkIdNumber(chunks[k].id) >= 1
          /\ ChunkIdNumber(chunks[k].id) <= chunk_id
    /\ \A k \in 1..(Len(chunks) - 1) :
          ChunkIdNumber(chunks[k].id) < ChunkIdNumber(chunks[k + 1].id)
    /\ \A j, k \in 1..Len(chunks) : j # k => chunks[j].id # chunks[k].id
    /\ \A k \in 1..Len(chunks) :
          \E j \in 1..Len(sections) : sections[j].id = chunks[k].section_id

(* Chunks of two pages and of two sections, with a number left out         *)
(* between two ids.                                                        *)
C15_Witness ==
    /\ Len(chunks) >= 2
    /\ chunks[1].page_number # chunks[Len(chunks)].page_number
    /\ chunks[1].section_id # chunks[Len(chunks)].section_id
    /\ \E k \in 1..(Len(chunks) - 1) :
          ChunkIdNumber(chunks[k + 1].id) > ChunkIdNumber(chunks[k].id) + 1

(* The chains of positions in sections that lead, each section being the   *)
(* parent of the next, from a section whose parent_id is None or the id of *)
(* no section down to the section sid.                                     *)
AncestorChains(sid) ==
    LET n == Len(sections)
        Known(id) == \E j \in 1..n : sections[j].id = id
    IN  { ix \in UNION {[1..len -> 1..n] : len \in 1..n} :
            /\ sections[ix[Len(ix)]].id = sid
            /\ \A i \in 1..(Len(ix) - 1) :
                  sections[ix[i + 1]].parent_id = sections[ix[i]].id
            /\ \/ sections[ix[1]].parent_id = None
               \/ ~Known(sections[ix[1]].parent_id) }

(* C16: a chunk's section_path is the titles along the chain of parents    *)
(* of its section, from the section with no (or no resolvable) parent to   *)
(* the chunk's own section: one title more than there are ancestors.       *)
C16_SectionPath ==
    \A k \in 1..Len(chunks) :
       \E ix \in AncestorChains(chunks[k].section_id) :
          /\ chunks[k].section_path = [i \in 1..Len(ix) |-> sections[ix[i]].title]
          /\ Len(chunks[k].section_path) = Len(ix)

(* A chunk of a section with two ancestors.                                *)
C16_Witness ==
    \E k \in 1..Len(chunks) :
       chunks[k].section_path = <<TitleRevenue, TitleCosts, TitlePercent>>

(***************************************************************************)
(* Properties of the query functions (specification SpecQuery).            *)
(***************************************************************************)
KnownId(id) == \E j \in 1..Len(sections) : sections[j].id = id

(* The position of the parent of the section at position j, 0 if it has    *)
(* none in the list.                                                       *)
ParentPos(j) ==
    IF j = 0 \/ ~KnownId(sections[j].parent_id) THEN 0
    ELSE CHOOSE i \in 1..Len(sections) : sections[i].id = sections[j].parent_id

(* The position reached from j by k parent links.                          *)
RECURSIVE Up(_, _)
Up(j, k) == IF k = 0 THEN j ELSE Up(ParentPos(j), k - 1)

(* The parent links form no cycle: from every section they lead out of     *)
(* the list.                                                               *)
Acyclic == \A j \in 1..Len(sections) : Up(j, Len(sections)) = 0

QueryDone(fn) == pc = "done" /\ call.fn = fn

(* C17: over sections without a cycle, get_parent_chain returns the empty  *)
(* list for an unknown id and for a section whose parent_id is None or     *)
(* the id of no section; otherwise a list of sections whose last element   *)
(* is the direct parent, each element being the parent of the next, and    *)
(* whose first element has a parent_id that is None or the id of no        *)
(* section (where the walk stopped).                                       *)
C17_ParentChain ==
    (QueryDone("get_parent_chain") /\ Acyclic) =>
        LET c == ret[1]
            self == QueryIndexGet(sections, call.section_id)
        IN  IF \/ self = <<>>
               \/ self[1].parent_id = None
               \/ ~KnownId(self[1].parent_id)
            THEN c = <<>>
            ELSE /\ c # <<>>
                 /\ \A i \in 1..Len(c) : c[i] \in Range(sections)
                 /\ c[Len(c)].id = self[1].parent_id
                 /\ \A i \in 1..(Len(c) - 1) : c[i + 1].parent_id = c[i].id
                 /\ \/ c[1].parent_id = None
                    \/ ~KnownId(c[1].parent_id)

(* A chain of two ancestors was returned, the upper one with a parent_id   *)
(* that is the id of no section.                                           *)
C17_Witness ==
    /\ QueryDone("get_parent_chain")
    /\ Acyclic
    /\ Len(ret[1]) = 2
    /\ ret[1][1].parent_id = UnknownId
    /\ ret[1][1].id # ret[1][2].id

(* C18 as stated: whatever the parent links, the walk of get_parent_chain  *)
(* ends, that is, it comes to no section twice (a walk that does goes      *)
(* round for ever), and its chain never holds the section asked for.       *)
C18_AsStated ==
    (call.fn = "get_parent_chain" /\ pc \in {"chain", "done"}) =>
        /\ \A i \in 1..Len(chain) : chain[i].id # call.section_id
        /\ \A i, j \in 1..Len(chain) : i # j => chain[i] # chain[j]

(* The sections below id: those reached by a chain of sections that starts *)
(* with a section whose parent_id is id, each being the parent of the next. *)
Below(id) ==
    LET n == Len(sections)
    IN  { sections[ix[Len(ix)]] :
            ix \in { jx \in UNION {[1..len -> 1..n] : len \in 1..n} :
                       /\ sections[jx[1]].parent_id = id
                       /\ \A i \in 1..(Len(jx) - 1) :
                             sections[jx[i + 1]].parent_id = sections[jx[i]].id } }

(* C19: over sections without a cycle, _collect_descendants returns the    *)
(* empty list when no section has parent_id = id; what it returns is, as a *)
(* set, the sections below id, which are the direct children of id and the *)
(* sections below each of them; no section is listed twice, and none with  *)
(* the id asked for.                                                       *)
C19_Descendants ==
    (QueryDone("_collect_descendants") /\ Acyclic) =>
        LET d == ret[1]
            children == {sections[j] : j \in {i \in 1..Len(sections) :
                             sections[i].parent_id = call.section_id}}
        IN  /\ children = {} => d = <<>>
            /\ Range(d) = Below(call.section_id)
            /\ Range(d) = children \cup UNION {Below(c.id) : c \in children}
            /\ \A i, j \in 1..Len(d) : i # j => d[i] # d[j]
            /\ \A i \in 1..Len(d) : d[i].id # call.section_id

(* A child and a child of that child were returned.                        *)
C19_Witness ==
    /\ QueryDone("_collect_descendants")
    /\ Acyclic
    /\ Len(ret[1]) = 2
    /\ ret[1][1].parent_id = call.section_id
    /\ ret[1][2].parent_id = ret[1][1].id

(* The sections of the relations of the given kind in the context          *)
(* returned.                                                               *)
RelationsOfKind(kind) ==
    LET OfKind(r) == r.kind = kind
    IN  SelectSeq(ret[1][1].relations, OfKind)

(* C20: build_section_context_by_id with include_siblings, for a known id, *)
(* returns one sibling relation: the sections of the list, in its order,   *)
(* that have the parent_id of the section asked for (None for a root) and  *)
(* are not that section.                                                   *)
C20_Siblings ==
    (/\ QueryDone("build_section_context_by_id")
     /\ call.include_siblings
     /\ ret[1] # <<>>) =>
        LET match == ret[1][1].match
            SameParent(sec) ==
                sec.parent_id = match.parent_id /\ sec.id # call.section_id
            rels == RelationsOfKind("sibling")
        IN  /\ match.id = call.section_id
            /\ Len(rels) = 1
            /\ rels[1].sections = SelectSeq(sections, SameParent)
            /\ \A i \in 1..Len(rels[1].sections) :
                  rels[1].sections[i].id # call.section_id

(* The siblings of a root section were returned: two other roots, in list  *)
(* order, the second of them on another page.                              *)
C20_Witness ==
    /\ QueryDone("build_section_context_by_id")
    /\ call.include_siblings
    /\ ret[1] # <<>>
    /\ ret[1][1].match.parent_id = None
    /\ Len(sections) = MaxSections
    /\ call.section_id = SecId(2)
    /\ RelationsOfKind("sibling")[1].sections
           = <<sections[1], sections[MaxSections]>>
    /\ sections[MaxSections].page_number # ret[1][1].match.page_number

(***************************************************************************)
(* Further properties of the chunker (specification SpecChunk).            *)
(***************************************************************************)
(* The expected sections 1..n of the page were matched, in their order, by *)
(* n of the lines read so far.                                             *)
MatchedInOrder(n) ==
    \E pos \in [1..n -> 1..line_index] :
       /\ \A i \in 1..(n - 1) : pos[i] < pos[i + 1]
       /\ \A i \in 1..n :
             /\ IsStr(ExpectedSections[i].title)
             /\ _line_matches_title(lines[pos[i]], ExpectedSections[i].title)

C28_CursorInOrder ==
    pc = "lines" =>
        /\ section_cursor <= Len(ExpectedSections)
        /\ section_cursor <= line_index
        /\ MatchedInOrder(section_cursor)
        /\ \A n \in 1..Len(ExpectedSections) :
              (\/ ~IsStr(ExpectedSections[n].title)
               \/ \A i \in 1..line_index :
                     ~_line_matches_title(lines[i], ExpectedSections[n].title))
                 => section_cursor < n

C28_Step ==
    /\ LineStep =>
          IF MatchesExpected
          THEN /\ section_cursor' = section_cursor + 1
               /\ current_section_id' = ExpectedSections[section_cursor + 1].id
          ELSE /\ section_cursor' = section_cursor
               /\ current_section_id' = current_section_id
    /\ (pc = "lines" /\ ~LineStep) => section_cursor' = section_cursor
    /\ (pc = "pages" /\ pc' = "lines") => section_cursor' = 0

(* C28: on a page the cursor starts at 0, moves by one exactly on a line   *)
(* that matches the title of the section it points at (which then becomes  *)
(* the open section) and never otherwise; so the sections up to the cursor *)
(* were matched in list order by earlier lines, and a section whose title  *)
(* is no string or matches no line keeps the cursor before itself.         *)
C28_SectionsOpenedInOrder == []C28_CursorInOrder /\ [][C28_Step]_vars

(* A page with two expected sections was read to its end; its first line   *)
(* matches the second section only, a later line the first section, and    *)
(* no line after that the second: the second section was never opened.     *)
C28_Witness ==
    /\ pc = "lines"
    /\ line_index = Len(lines)
    /\ Len(ExpectedSections) = 2
    /\ IsStr(ExpectedSections[1].title)
    /\ _line_matches_title(lines[1], ExpectedSections[2].title)
    /\ ~_line_matches_title(lines[1], ExpectedSections[1].title)
    /\ section_cursor = 1
    /\ current_section_id = ExpectedSections[1].id

(* C30 as stated: the n-th chunk has the id chunk_n, and chunk_count is    *)
(* the number in the id of the last chunk.                                 *)
C30_AsStated ==
    /\ \A k \in 1..Len(chunks) : chunks[k].id = ChunkId(k)
    /\ (pc = "done" /\ chunks # <<>>) =>
          chunk_result.chunk_count = ChunkIdNumber(chunks[Len(chunks)].id)

C30_Counted ==
    /\ \A k \in 1..Len(chunks) :
          /\ ChunkIdNumber(chunks[k].id) >= k
          /\ ChunkIdNumber(chunks[k].id) <= chunk_id
    /\ pc = "done" =>
          /\ chunk_result.chunk_count = Len(chunks)
          /\ chunk_result.chunk_count <= chunk_id

C30_Step ==
    /\ chunk_id' = chunk_id \/ chunk_id' = chunk_id + 1
    /\ ChunkAppended =>
          /\ chunk_id' = chunk_id + 1
          /\ NewChunk.id = ChunkId(chunk_id')
    /\ (chunk_id' = chunk_id + 1 /\ chunks' = chunks) <=>
          /\ LineStep
          /\ MatchesExpected
          /\ Truthy(current_section_id)
          /\ buffer = <<>>

(* C30: a chunk gets the number the counter has after being incremented;   *)
(* the counter is also incremented, with no chunk emitted, exactly when a  *)
(* heading is matched while a section is open and the buffer is empty; so  *)
(* the n-th chunk has a number of at least n, and chunk_count is the       *)
(* length of the list, at most the counter.                                *)
C30_IdsSkipOnEmptyFlush == []C30_Counted /\ [][C30_Step]_vars

(* Two headings in a row, and then a chunk: its number is 2, being first.  *)
C30_Witness ==
    /\ Len(chunks) = 1
    /\ chunks[1].id = ChunkId(2)
    /\ pc = "done"

(***************************************************************************)
(* Properties of _flush_chunk (specification SpecFlush).                   *)
(***************************************************************************)
(* C29 as stated: whatever the parent links, the walk of                   *)
(* _build_section_path ends, that is, it collects at most one title for    *)
(* each section of the list (a walk that comes to a section twice goes     *)
(* round for ever).                                                        *)
C29_AsStated ==
    (call.fn = "_flush_chunk" /\ pc \in {"path", "done"}) =>
        Len(path) <= Len(sections)

(***************************************************************************)
(* Further properties of the query functions (specification SpecQuery).    *)
(***************************************************************************)
(* No section has a title that the query of the call matches.              *)
NoTitleMatch ==
    LET wanted == Join(Split(Lower(call.query)), <<" ">>)
        TitleOf(j) == Join(Split(Lower(sections[j].title)), <<" ">>)
    IN  \A j \in 1..Len(sections) :
           IF call.exact THEN TitleOf(j) # wanted
           ELSE \A i \in 0..(Len(TitleOf(j)) - Len(wanted)) :
                   SubSeq(TitleOf(j), i + 1, i + Len(wanted)) # wanted

(* C21: with an id that no section carries, build_section_context_by_id    *)
(* goes from the call straight to its return, of None; with a query that   *)
(* matches no title, build_section_context finds no match, walks no parent *)
(* links and returns the empty list; whatever the list (its parent links   *)
(* may form a cycle) and the flags.                                        *)
C21_SoftFail ==
    /\ (call.fn = "build_section_context_by_id"
        /\ ~KnownId(call.section_id)) =>
           /\ pc \in {"call", "done"}
           /\ pc = "done" => ret = << <<>> >>
    /\ (call.fn = "build_section_context" /\ NoTitleMatch) =>
           /\ pc \in {"call", "matches", "done"}
           /\ matches = <<>>
           /\ contexts = <<>>
           /\ pc = "done" => ret = << <<>> >>

(* build_section_context returned the empty list, for a query matching no  *)
(* title, over sections whose parent links form a cycle.                   *)
C21_Witness ==
    /\ QueryDone("build_section_context")
    /\ NoTitleMatch
    /\ sections # <<>>
    /\ ~Acyclic
    /\ ret = << <<>> >>

(***************************************************************************)
(* Properties of the data excerpt (specification SpecData).                *)
(***************************************************************************)
DataDone == call.fn = "build_section_data_context" /\ ret # <<>>
DataResult == ret[1]

(* The non-blank lines, stripped, of the page of the section asked for;    *)
(* empty when there is no such page or the title is no string.             *)
DataLinesOfPage ==
    LET found == {i \in 1..Len(call.pages) :
                     call.pages[i].page_number = call.section.page_number}
    IN  IF found = {} \/ ~IsStr(call.section.title) THEN <<>>
        ELSE StrippedLines(call.pages[SetMin(found)].text)
TitleHits ==
    {i \in 1..Len(DataLinesOfPage) :
        query_line_matches_title(DataLinesOfPage[i], call.section.title)}
NumericAfter(i) ==
    {j \in (i + 1)..Len(DataLinesOfPage) :
        _is_numeric_data_line(DataLinesOfPage[j])}

(* C22 as stated: an excerpt has at most max_lines lines, all numeric, it  *)
(* is the run of lines right after the first title line, and there is no   *)
(* excerpt when the line right after the title line is not numeric (lines  *)
(* read as the non-blank lines, stripped).                                 *)
C22_AsStated ==
    DataDone =>
        /\ DataResult # <<>> =>
              LET got == DataResult[1].lines
                  first == SetMin(TitleHits)
              IN  /\ Len(got) <= call.max_lines
                  /\ \A k \in 1..Len(got) : _is_numeric_data_line(got[k])
                  /\ got = SubSeq(DataLinesOfPage, first + 1,
                                  first + Len(got))
        /\ (TitleHits # {}
            /\ (SetMin(TitleHits) + 1) \notin NumericAfter(SetMin(TitleHits)))
              => DataResult = <<>>

(* C22: the excerpt is the first run of numeric lines after the first      *)
(* title line among the non-blank stripped lines of the page, lines that   *)
(* are not numeric between the title line and that run being skipped; the  *)
(* run is cut at max_lines lines but holds one line at least.  There is no *)
(* excerpt exactly when there is no title line or no numeric line after    *)
(* it.                                                                     *)
C22_FirstNumericRun ==
    DataDone =>
        IF TitleHits = {} \/ NumericAfter(SetMin(TitleHits)) = {}
        THEN DataResult = <<>>
        ELSE LET start == SetMin(NumericAfter(SetMin(TitleHits)))
                 cap == Max2(call.max_lines, 1)
             IN  /\ DataResult # <<>>
                 /\ DataResult[1].page_number = call.section.page_number
                 /\ LET got == DataResult[1].lines
                        n == Len(got)
                    IN  /\ n >= 1
                        /\ n <= cap
                        /\ got = SubSeq(DataLinesOfPage, start, start + n - 1)
                        /\ \A k \in 1..n : _is_numeric_data_line(got[k])
                        /\ \/ n = cap
                           \/ start + n > Len(DataLinesOfPage)
                           \/ ~_is_numeric_data_line(
                                    DataLinesOfPage[start + n])

(* An excerpt of two lines that begins after a line of prose that follows  *)
(* the title line.                                                         *)
C22_Witness ==
    /\ DataDone
    /\ DataResult # <<>>
    /\ Len(DataResult[1].lines) = 2
    /\ TitleHits # {}
    /\ SetMin(NumericAfter(SetMin(TitleHits))) > SetMin(TitleHits) + 1

(***************************************************************************)
(* Properties of the keywords file (specification SpecKeywords).           *)
(***************************************************************************)
LoadDone == call.fn = "load_keywords_file" /\ pc = "done"
KwListNames ==
    {"main_keywords", "subsection_keywords", "main_regex",
     "subsection_regex"}

(* The stripped lines of the file that are neither blank nor comments.     *)
KwEntryLines ==
    LET stripped == [i \in 1..Len(FileLines(kw_file)) |->
                        Strip(FileLines(kw_file)[i])]
        IsEntry(l) == l # <<>> /\ l[1] # "#"
    IN  SelectSeq(stripped, IsEntry)

(* The list a line belongs to and the value it gives, by the prefixes the  *)
(* code knows; a line that starts with none of them is a main keyword as a *)
(* whole.                                                                  *)
KwListOf(line) ==
    LET lower == Lower(line)
    IN  CASE HasPrefix(lower, PrefixMainRegex \cup PrefixRegex) -> "main_regex"
          [] HasPrefix(lower, PrefixSubRegex) -> "subsection_regex"
          [] HasPrefix(lower, PrefixSub) -> "subsection_keywords"
          [] HasPrefix(lower, PrefixMain) -> "main_keywords"
          [] OTHER -> "main_keywords"
KwPrefixed(line) ==
    HasPrefix(Lower(line),
              PrefixMainRegex \cup PrefixRegex \cup PrefixSubRegex
                  \cup PrefixSub \cup PrefixMain)
KwValueOf(line) == IF KwPrefixed(line) THEN ValueAfterColon(line) ELSE line

(* The same with six prefixes only: main_regex:, regex:, sub_regex:, sub:, *)
(* subsection:, main:.                                                     *)
StatedPrefixes ==
    {<<"m", "a", "i", "n", "_", "r", "e", "g", "e", "x", ":">>,
     <<"r", "e", "g", "e", "x", ":">>,
     <<"s", "u", "b", "_", "r", "e", "g", "e", "x", ":">>}
        \cup PrefixSub \cup PrefixMain
StatedListOf(line) ==
    LET lower == Lower(line)
    IN  CASE StartsWith(lower, <<"m", "a", "i", "n", "_", "r", "e", "g", "e",
                                "x", ":">>) -> "main_regex"
          [] StartsWith(lower, <<"r", "e", "g", "e", "x", ":">>)
                -> "main_regex"
          [] StartsWith(lower, <<"s", "u", "b", "_", "r", "e", "g", "e", "x",
                                ":">>) -> "subsection_regex"
          [] HasPrefix(lower, PrefixSub) -> "subsection_keywords"
          [] OTHER -> "main_keywords"
StatedValueOf(line) ==
    IF HasPrefix(Lower(line), StatedPrefixes)
    THEN ValueAfterColon(line) ELSE line

(* C24 as stated: every line that is neither blank nor a comment lands in  *)
(* exactly one list, the one of its prefix among main:, sub:, subsection:, *)
(* main_regex:, regex:, sub_regex: (main keywords for a bare line), in the *)
(* order of the lines.                                                     *)
C24_AsStated ==
    LoadDone =>
        \A name \in KwListNames :
            LET InList(l) == StatedListOf(l) = name
                mine == SelectSeq(KwEntryLines, InList)
            IN  ret[1][name] = [k \in 1..Len(mine) |-> StatedValueOf(mine[k])]

(* C24: each of the four lists holds, in the order of the lines, the       *)
(* values of the lines of its prefixes that have a value; main-regex: and  *)
(* sub-regex: are prefixes too, a bare line is a main keyword as a whole,  *)
(* and a prefixed line with nothing after the colon lands in no list, like *)
(* blank lines and comments.  So no line lands in two lists.               *)
C24_LinesByPrefix ==
    LoadDone =>
        /\ \A name \in KwListNames :
              LET InList(l) == KwListOf(l) = name /\ KwValueOf(l) # <<>>
                  mine == SelectSeq(KwEntryLines, InList)
              IN  ret[1][name] = [k \in 1..Len(mine) |-> KwValueOf(mine[k])]
        /\ Len(ret[1].main_keywords) + Len(ret[1].subsection_keywords)
              + Len(ret[1].main_regex) + Len(ret[1].subsection_regex)
              <= Len(KwEntryLines)

(* A file of two subsection lines, one with the prefix in upper case, was  *)
(* loaded: both values are in the subsection list, in file order.          *)
C24_Witness ==
    /\ LoadDone
    /\ Len(KwEntryLines) = 2
    /\ KwEntryLines[1] # KwEntryLines[2]
    /\ Lower(KwEntryLines[1]) # KwEntryLines[1]
    /\ ret[1].subsection_keywords =
          <<KwValueOf(KwEntryLines[1]), KwValueOf(KwEntryLines[2])>>

UpdateCalled == call.fn = "update_keywords_file" /\ kw_log # <<>>
Norms(words) == {_normalize(words[i]) : i \in 1..Len(words)}
(* The main keywords a call appended to the file.                          *)
AddedMain(entry) ==
    load_keywords_file(SubSeq(entry.after, Len(entry.before) + 1,
                              Len(entry.after))).main_keywords
KnownNorms(content) ==
    Norms(load_keywords_file(content).main_keywords)
        \cup Norms(load_keywords_file(content).subsection_keywords)
Idempotent ==
    /\ \A k \in 2..Len(kw_log) :
          /\ kw_log[k].after = kw_log[k].before
          /\ kw_log[k].result = kw_log[1].result
    /\ \A k \in 1..Len(kw_log) :
          LET added == AddedMain(kw_log[k])
          IN  /\ \A i, j \in 1..Len(added) :
                    i # j => _normalize(added[i]) # _normalize(added[j])
(* A call appends no normalized text the file knew, and after it the file  *)
(* knows the normalized text of every candidate.                           *)
AddsWhatIsNew ==
    \A k \in 1..Len(kw_log) :
        /\ Norms(AddedMain(kw_log[k])) \cap KnownNorms(kw_log[k].before) = {}
        /\ Norms(call.main_candidates) \subseteq KnownNorms(kw_log[k].after)
UsableCandidates ==
    \A i \in 1..Len(call.main_candidates) :
        Strip(call.main_candidates[i]) # <<>>

Segmenters == {"segment_with_keywords", "segment_sections"}
Segmented == \E i \in 1..Len(steps) : steps[i] \in Segmenters
StepAt(name) == {i \in 1..Len(steps) : steps[i] = name}
RunEnded == pc \in {"done", "raised"}
(* The run got past the loading of the pages.                              *)
PagesLoaded == \E i \in 1..Len(steps) : steps[i] = "load_raw_pages"

(* C25: with segmentation on and a keywords file configured that does not  *)
(* exist, or update_keywords on and no keywords file, no segmentation is   *)
(* ever done, no sections, diagram or chunk output is written, the run     *)
(* never returns, and once the pages are loaded it ends with               *)
(* FileNotFoundError, respectively ValueError.                             *)
C25_MissingKeywordsFatal ==
    (/\ call.fn = "run"
     /\ call.segment
     /\ \/ call.keywords_file = "missing"
        \/ call.update_keywords /\ call.keywords_file = "None") =>
        /\ ~Segmented
        /\ outputs \subseteq {"raw_pages"}
        /\ pc # "done"
        /\ pc \notin {"discover", "update_keywords", "load_keywords",
                      "segment_with_keywords", "segment_sections", "chunk"}
        /\ (pc = "raised" /\ PagesLoaded) =>
              raised = IF call.keywords_file = "missing"
                       THEN "FileNotFoundError" ELSE "ValueError"

(* A run that ingested the document ended with FileNotFoundError for the   *)
(* keywords file, with chunking asked for as well.                         *)
C25_Witness ==
    /\ call.fn = "run"
    /\ call.segment
    /\ call.chunk
    /\ call.keywords_file = "missing"
    /\ pc = "raised"
    /\ raised = "FileNotFoundError"
    /\ outputs = {"raw_pages"}

(* C27 as stated: with segmentation on, an existing keywords file and      *)
(* update_keywords on, a run that has loaded its pages does not end with   *)
(* an exception before the sections are written, and when it has ended,    *)
(* discovery, update and segmentation with keywords were done in this      *)
(* order and the sections output exists.                                   *)
C27_AsStated ==
    (/\ call.fn = "run"
     /\ call.segment
     /\ call.keywords_file = "present"
     /\ call.update_keywords
     /\ PagesLoaded
     /\ RunEnded) =>
        /\ "sections" \in outputs
        /\ \E i \in StepAt("discover_heading_candidates") :
           \E j \in StepAt("update_keywords_file") :
           \E k \in StepAt("segment_with_keywords") : i < j /\ j < k

(***************************************************************************)
(* Properties of the tree diagram (specification SpecDiagram).             *)
(***************************************************************************)
DiagramDone == call.fn = "build_sections_tree_diagram" /\ pc = "done"
Diagram == ret[1]
EdgesInto(id) ==
    {i \in 1..Len(Diagram) : Diagram[i].kind = "edge" /\ Diagram[i].b = id}
NodesOf(id) ==
    {i \in 1..Len(Diagram) : Diagram[i].kind = "node" /\ Diagram[i].a = id}
PagesOfSections == {sections[i].page_number : i \in 1..Len(sections)}
(* The page numbers of the page nodes, in the order of their lines.        *)
PageNodeNumbers ==
    LET IsPageNode(l) ==
            l.kind = "node" /\ \E n \in PagesOfSections : l.a = PageNodeId(n)
        nodes == SelectSeq(Diagram, IsPageNode)
    IN  [k \in 1..Len(nodes) |->
            CHOOSE n \in PagesOfSections : nodes[k].a = PageNodeId(n)]

(* C26: every section has one node and exactly one edge into it, from its  *)
(* parent when parent_id is the id of a section of the list and from its   *)
(* page otherwise; the page nodes are the pages of the sections, once      *)
(* each, in ascending order, each with exactly one edge into it, which     *)
(* comes from the document; and every edge starts at a node the diagram    *)
(* declares.                                                               *)
C26_TreeEdges ==
    DiagramDone =>
        /\ \A i \in 1..Len(sections) :
              LET s == sections[i]
              IN  /\ Cardinality(NodesOf(s.id)) = 1
                  /\ Cardinality(EdgesInto(s.id)) = 1
                  /\ \A e \in EdgesInto(s.id) :
                        Diagram[e].a =
                            IF s.parent_id # None /\ KnownId(s.parent_id)
                            THEN s.parent_id
                            ELSE PageNodeId(s.page_number)
        /\ Len(PageNodeNumbers) = Cardinality(PagesOfSections)
        /\ \A k \in 1..(Len(PageNodeNumbers) - 1) :
              PageNodeNumbers[k] < PageNodeNumbers[k + 1]
        /\ \A n \in PagesOfSections :
              /\ Cardinality(EdgesInto(PageNodeId(n))) = 1
              /\ \A e \in EdgesInto(PageNodeId(n)) : Diagram[e].a = DocId
        /\ \A i \in 1..Len(Diagram) :
              Diagram[i].kind = "edge" => NodesOf(Diagram[i].a) # {}

(* A diagram of sections on two pages, the first of the list on the later  *)
(* page: one has a parent_id that no section carries and hangs from its    *)
(* page, one hangs from its parent.                                        *)
C26_Witness ==
    /\ DiagramDone
    /\ Len(sections) >= 2
    /\ sections[1].page_number > sections[2].page_number
    /\ \E i \in 1..Len(sections) :
          /\ sections[i].parent_id = UnknownId
          /\ \A e \in EdgesInto(sections[i].id) :
                Diagram[e].a = PageNodeId(sections[i].page_number)
    /\ \E i, j \in 1..Len(sections) :
          /\ i # j
          /\ sections[i].parent_id = sections[j].id
          /\ \A e \in EdgesInto(sections[i].id) :
                Diagram[e].a = sections[j].id

(***************************************************************************)
(* Level and parent of the sections of the hierarchy builder               *)
(* (specification Spec).                                                   *)
(***************************************************************************)
(* The level of the section a parent_id names; 0 if no section has the id. *)
LevelOfId(id) ==
    IF HasSection(id) THEN sections[SectionIndex(id)].level ELSE 0

(* C32: every section has a level in 1..3; a level-1 section has no        *)
(* parent; the parent of a level-2 section, if it has one, is a level-1    *)
(* section; a level-3 section has a parent, which is a level-2 section.    *)
C32_LevelParentKind ==
    \A k \in 1..Len(sections) :
        LET s == sections[k]
        IN  /\ s.level \in 1..3
            /\ s.level = 1 => s.parent_id = None
            /\ s.level = 2 =>
                  (s.parent_id = None \/ LevelOfId(s.parent_id) = 1)
            /\ s.level = 3 =>
                  (s.parent_id # None /\ LevelOfId(s.parent_id) = 2)

(* A level-3 section under a level-2 section that has no parent itself,    *)
(* next to a level-1 section.                                              *)
C32_Witness ==
    /\ \E k \in 1..Len(sections) :
          /\ sections[k].level = 3
          /\ LevelOfId(sections[k].parent_id) = 2
          /\ sections[SectionIndex(sections[k].parent_id)].parent_id = None
    /\ \E k \in 1..Len(sections) :
          /\ sections[k].level = 1
          /\ sections[k].parent_id = None

(***************************************************************************)
(* Conservation of lines by the chunker (specification SpecChunk).         *)
(***************************************************************************)
RECURSIVE LinesOfChunks(_)
LinesOfChunks(cs) ==
    IF cs = <<>> THEN <<>>
    ELSE SplitLines(Head(cs).text) \o LinesOfChunks(Tail(cs))

(* The lines kept so far, in order: the lines of the texts of the chunks,  *)
(* then the lines buffered on the page being processed.                    *)
KeptLines ==
    LinesOfChunks(chunks) \o (IF pc = "lines" THEN buffer ELSE <<>>)

C31_Step ==
    IF LineStep /\ ~MatchesExpected /\ current_section_id # None
    THEN KeptLines' = Append(KeptLines, CurrentLine)
    ELSE KeptLines' = KeptLines

(* What is returned holds the kept lines and nothing is left behind.       *)
C31_Returned ==
    pc = "done" =>
        /\ KeptLines = LinesOfChunks(chunk_result.chunks)
        /\ \A k \in 1..Len(chunks) :
              chunks[k].line_count = Len(SplitLines(chunks[k].text))

(* C31: the lines of the chunk texts, in output order and followed by the  *)
(* lines buffered on the current page, grow by exactly the line processed  *)
(* when it is no heading match and a section is open, at the end, and      *)
(* change at no other step (heading match, line before the first section,  *)
(* flush, start and end of a page, return): every such line is in one      *)
(* chunk, once, in page and line order.                                    *)
C31_LineConservation == [][C31_Step]_vars /\ []C31_Returned

(* A run over two pages returned two chunks that hold three lines, two of  *)
(* them in the first chunk and one, of the second page, in the second.     *)
C31_Witness ==
    /\ pc = "done"
    /\ Len(chunks) = 2
    /\ chunks[1].line_count = 2
    /\ chunks[1].page_number = 1
    /\ chunks[2].page_number = 2
    /\ Len(LinesOfChunks(chunks)) = 3

====
